---- MODULE Spec2Model ----
(***************************************************************************)
(* Model of the hf-dataset curation toolkit: the filename classifier and   *)
(* content hasher of scripts/build_manifest.py, the manifest build         *)
(* (build_manifest.main) and the manifest validation                       *)
(* (validate_dataset.main).                                                *)
(*                                                                         *)
(* Python str values are modelled as tuples of one-character strings, so   *)
(* that stem extraction, substring search, split and suffix tests are      *)
(* computed character by character as the code computes them.              *)
(***************************************************************************)
EXTENDS Integers, Sequences, FiniteSets, TLC

VARIABLES
    filename,     \* classifier harness: the filename handed to the classifier
    song_name,    \* classifier harness: result of extract_song_name, or Unset
    emotion,      \* classifier harness: result of extract_emotion, or Unset
    row_notes,    \* classifier harness: the notes of the file's row, or Unset
    audio_dir,    \* data/raw/audio: file name -> file content
    midi_dir,     \* data/raw/midi:  file name -> file content
    manifest,     \* data/manifests/manifest.csv: NoFile or the sequence of rows
    report,       \* reports/validate.json: NoFile or the report record
    build_out,    \* what the last build run printed and how it ended
    val_out,      \* how the last validation run ended (exit code)
    changes,      \* number of edits made by the operator to files so far
    built,        \* history: the last build completed and nothing was edited since
    input_csv,    \* csv_to_midi: the CSV note file handed to it
    output_midi,  \* csv_to_midi: the file at the output path
    velocity,     \* csv_to_midi: the velocity argument
    result,       \* csv_to_midi: not called, returned note_count, or raised
    csv_root,     \* csv_to_midi.py: the input tree, path -> CSV note file
    midi_root,    \* csv_to_midi.py: the output tree, path -> MIDI file
    cli,          \* csv_to_midi.py: arguments and outcome of the last run of main
    health,       \* health checkers: input, arguments and outcome of a run
    pub           \* publish: arguments, environment and position of a run

cls_vars == <<filename, song_name, emotion, row_notes>>
data_vars == <<audio_dir, midi_dir, manifest, report, build_out, val_out, changes,
               built>>
conv_vars == <<input_csv, output_midi, velocity, result>>
batch_vars == <<csv_root, midi_root, cli>>
tool_vars == <<conv_vars, batch_vars, health, pub>>

vars == <<cls_vars, data_vars, tool_vars>>

-----------------------------------------------------------------------------
(* Bounds of the model.                                                    *)

\* Number of vocabulary words concatenated to form a classifier input.
MaxWords == 3

\* Number of edits the operator makes to the data files and the manifest.
MaxChanges == 2

\* Number of data rows of a CSV note file.
MaxRows == 2

-----------------------------------------------------------------------------
(* Python values.                                                          *)

\* Python's None (a one-element tuple that is no character string).
None == <<"None">>

\* A result that has not been computed yet.
Unset == <<"Unset">>

Digits == {"0", "1", "2", "3", "4", "5", "6", "7", "8", "9"}

\* s.rfind(c): the 0-based index of the last occurrence of c in s, or -1.
RFind(s, c) ==
    IF \E i \in 1..Len(s) : s[i] = c
    THEN (CHOOSE i \in 1..Len(s) : s[i] = c /\ \A j \in (i+1)..Len(s) : s[j] # c) - 1
    ELSE -1

\* s.find(c): the 0-based index of the first occurrence of c in s, or -1.
Find(s, c) ==
    IF \E i \in 1..Len(s) : s[i] = c
    THEN (CHOOSE i \in 1..Len(s) : s[i] = c /\ \A j \in 1..(i-1) : s[j] # c) - 1
    ELSE -1

\* pat in s
Contains(s, pat) ==
    \E i \in 0..(Len(s) - Len(pat)) : SubSeq(s, i + 1, i + Len(pat)) = pat

\* s.endswith(suf)
EndsWith(s, suf) ==
    /\ Len(suf) <= Len(s)
    /\ SubSeq(s, Len(s) - Len(suf) + 1, Len(s)) = suf

\* s.startswith(pre)
StartsWith(s, pre) ==
    /\ Len(pre) <= Len(s)
    /\ SubSeq(s, 1, Len(pre)) = pre

\* s.split("_")[0]: the part of s before its first underscore (all of s if none).
SplitFirst(s) ==
    IF Find(s, "_") = -1 THEN s ELSE SubSeq(s, 1, Find(s, "_"))

\* pathlib: Path(name).stem for a name without directory part: the name up
\* to its last dot, unless that dot is the first or the last character.
PathStem(name) ==
    LET i == RFind(name, ".")
    IN  IF 0 < i /\ i < Len(name) - 1 THEN SubSeq(name, 1, i) ELSE name

\* re.match(r"^\d{4,5}-", name)
ArchivalMatch(name) ==
    \/ /\ Len(name) >= 5
       /\ \A i \in 1..4 : name[i] \in Digits
       /\ name[5] = "-"
    \/ /\ Len(name) >= 6
       /\ \A i \in 1..5 : name[i] \in Digits
       /\ name[6] = "-"

-----------------------------------------------------------------------------
(* scripts/build_manifest.py: the filename classifier.                     *)

Angry == <<"a", "n", "g", "r", "y">>
Happy == <<"h", "a", "p", "p", "y">>
Sad == <<"s", "a", "d">>
Tender == <<"t", "e", "n", "d", "e", "r">>
Original == <<"o", "r", "i", "g", "i", "n", "a", "l">>
Original1 == <<"o", "r", "i", "g", "i", "n", "a", "l", "1">>

EMOTIONS == <<Angry, Happy, Sad, Tender, Original, Original1>>

TorrMark == <<"_", "t", "o", "r", "r", "_">>
CleanedMark == <<"_", "c", "l", "e", "a", "n", "e", "d">>

\* Faulty variant: the suffix loop stops before the last list entry (original1).
RECURSIVE StripEmotionSuffix_NoOriginal1(_, _)
StripEmotionSuffix_NoOriginal1(name, k) ==
    IF k > Len(EMOTIONS) - 1 THEN name
    ELSE LET suffix == <<"_">> \o EMOTIONS[k]
         IN  IF EndsWith(name, suffix)
             THEN SubSeq(name, 1, Len(name) - Len(suffix))
             ELSE StripEmotionSuffix_NoOriginal1(name, k + 1)

\* Faulty variant: the suffix loop strips the emotion but leaves the underscore.
RECURSIVE StripEmotionSuffix_KeepUnderscore(_, _)
StripEmotionSuffix_KeepUnderscore(name, k) ==
    IF k > Len(EMOTIONS) THEN name
    ELSE LET suffix == <<"_">> \o EMOTIONS[k]
         IN  IF EndsWith(name, suffix)
             THEN SubSeq(name, 1, Len(name) - Len(EMOTIONS[k]))
             ELSE StripEmotionSuffix_KeepUnderscore(name, k + 1)

\* The loop "for emotion in EMOTIONS: if name.endswith(suffix): return ..."
\* of extract_song_name, from list position k on.
RECURSIVE StripEmotionSuffix(_, _)
StripEmotionSuffix(name, k) ==
    IF k > Len(EMOTIONS) THEN name
    ELSE LET suffix == <<"_">> \o EMOTIONS[k]
         IN  IF EndsWith(name, suffix)
             THEN SubSeq(name, 1, Len(name) - Len(suffix))
             ELSE StripEmotionSuffix(name, k + 1)

\* Faulty variant: the emotion-suffix rule is tried before the processed rule.
extract_song_name_SuffixFirst(fname) ==
    LET name == PathStem(fname)
    IN  IF ArchivalMatch(name) THEN name
        ELSE IF StripEmotionSuffix(name, 1) # name
        THEN StripEmotionSuffix(name, 1)
        ELSE IF Contains(name, TorrMark) \/ Contains(name, CleanedMark)
        THEN SplitFirst(name)
        ELSE name

extract_song_name(fname) ==
    LET name == PathStem(fname)
    IN  IF ArchivalMatch(name) THEN name
        ELSE IF Contains(name, TorrMark) \/ Contains(name, CleanedMark)
        THEN SplitFirst(name)
        ELSE StripEmotionSuffix(name, 1)

\* The loop "for emotion in EMOTIONS" of extract_emotion, from position k on.
RECURSIVE ScanEmotion(_, _)
ScanEmotion(name, k) ==
    IF k > Len(EMOTIONS) THEN None
    ELSE IF EMOTIONS[k] = Original1
         THEN IF Contains(name, <<"_">> \o EMOTIONS[k])
              THEN Original
              ELSE ScanEmotion(name, k + 1)
         ELSE IF Contains(name, <<"_">> \o EMOTIONS[k])
              THEN EMOTIONS[k]
              ELSE ScanEmotion(name, k + 1)

\* Faulty variant: the archival test is left out of the emotion extraction.
extract_emotion_NoArchival(fname) ==
    ScanEmotion(PathStem(fname), 1)

extract_emotion(fname) ==
    LET name == PathStem(fname)
    IN  IF ArchivalMatch(name) THEN None ELSE ScanEmotion(name, 1)

-----------------------------------------------------------------------------
(* Characters and bytes.                                                   *)

\* The digits and letters in code-point order, and the punctuation that the
\* file names and paths of the data set use.
DigitChars == <<"0", "1", "2", "3", "4", "5", "6", "7", "8", "9">>

UpperChars ==
    << "A", "B", "C", "D", "E", "F", "G", "H", "I", "J", "K", "L", "M",
       "N", "O", "P", "Q", "R", "S", "T", "U", "V", "W", "X", "Y", "Z" >>

LowerChars ==
    << "a", "b", "c", "d", "e", "f", "g", "h", "i", "j", "k", "l", "m",
       "n", "o", "p", "q", "r", "s", "t", "u", "v", "w", "x", "y", "z" >>

PunctChars == {" ", "-", ".", "/", ":", "_"}

\* The 1-based position of c in the sequence s.
IndexIn(s, c) == CHOOSE i \in 1..Len(s) : s[i] = c

\* ord(c) for these characters (ASCII).
Ord ==
    [c \in { DigitChars[i] : i \in 1..Len(DigitChars) }
            \cup { UpperChars[i] : i \in 1..Len(UpperChars) }
            \cup { LowerChars[i] : i \in 1..Len(LowerChars) }
            \cup PunctChars |->
        IF c \in { DigitChars[i] : i \in 1..Len(DigitChars) }
        THEN 47 + IndexIn(DigitChars, c)
        ELSE IF c \in { UpperChars[i] : i \in 1..Len(UpperChars) }
        THEN 64 + IndexIn(UpperChars, c)
        ELSE IF c \in { LowerChars[i] : i \in 1..Len(LowerChars) }
        THEN 96 + IndexIn(LowerChars, c)
        ELSE CASE c = " " -> 32
               [] c = "-" -> 45
               [] c = "." -> 46
               [] c = "/" -> 47
               [] c = ":" -> 58
               [] c = "_" -> 95]

\* s.encode("utf-8") for a str of ASCII characters: one byte per character.
EncodeUtf8(s) == [i \in 1..Len(s) |-> Ord[s[i]]]

\* a < b for str values: lexicographic by code point, a proper prefix first.
RECURSIVE StrLess(_, _)
StrLess(a, b) ==
    IF b = <<>> THEN FALSE
    ELSE IF a = <<>> THEN TRUE
    ELSE IF Head(a) = Head(b) THEN StrLess(Tail(a), Tail(b))
    ELSE Ord[Head(a)] < Ord[Head(b)]

\* sorted(S) for a set of str values.
RECURSIVE Sorted(_)
Sorted(S) ==
    IF S = {} THEN <<>>
    ELSE LET m == CHOOSE x \in S : \A y \in S \ {x} : StrLess(x, y)
         IN  <<m>> \o Sorted(S \ {m})

\* The elements of a sequence, as a set.
Range(s) == { s[i] : i \in 1..Len(s) }

-----------------------------------------------------------------------------
(* Content Hasher: sha256_file and sha256_string.  SHA-256 itself is taken *)
(* as an injective function of the bytes fed to it: the accumulator is the *)
(* bytes consumed so far and the hex digest is a record wrapping them.     *)

\* f.read(8192): the size of one chunk.
ChunkSize == 8192

\* A file as stored: whether open() and read() succeed, and its bytes.
File(bytes) == [readable |-> TRUE, bytes |-> bytes]

\* h.hexdigest() of an accumulator.
HexDigest(acc) == [sha256 |-> acc]

\* "for chunk in iter(lambda: f.read(8192), ...): h.update(chunk)": feeds
\* the rest of the file to the accumulator chunk by chunk.
RECURSIVE UpdateChunks(_, _)
UpdateChunks(acc, rest) ==
    IF rest = <<>> THEN acc
    ELSE LET n == IF Len(rest) < ChunkSize THEN Len(rest) ELSE ChunkSize
         IN  UpdateChunks(acc \o SubSeq(rest, 1, n), SubSeq(rest, n + 1, Len(rest)))

\* build_manifest.py's sha256_file of a readable file.
sha256_file(file) == HexDigest(UpdateChunks(<<>>, file.bytes))

\* sha256_string(s)
sha256_string(s) == HexDigest(EncodeUtf8(s))

-----------------------------------------------------------------------------
(* The repository's data files.                                            *)

WavExt == <<".", "w", "a", "v">>
MidExt == <<".", "m", "i", "d">>

AudioPrefix == <<"d", "a", "t", "a", "/", "r", "a", "w", "/", "a", "u", "d", "i", "o", "/">>
MidiPrefix == <<"d", "a", "t", "a", "/", "r", "a", "w", "/", "m", "i", "d", "i", "/">>

SONGS_WITH_VARIATIONS ==
    { <<"F", "u", "g", "l", "e", "s", "a", "n", "g", "e", "n">>,
      <<"G", "o", "d", "v", "a", "e", "r", "s", "d", "a", "g", "e", "n">>,
      <<"G", "r", "o", "H", "o", "l", "t", "o">>,
      <<"H", "a", "s", "l", "e", "b", "u", "s", "k", "a", "n", "e">>,
      <<"H", "a", "v", "b", "r", "u", "s", "e", "n">>,
      <<"I", "v", "a", "r", "J", "o", "r", "d", "e">>,
      <<"K", "l", "u", "n", "k", "e", "l", "a", "t", "t", "e", "n">>,
      <<"K", "o", "n", "g", "e", "l", "a", "t", "t", "e", "n">>,
      <<"L", "a", "n", "g", "a", "a", "k", "e", "r", "n">>,
      <<"L", "a", "t", "t", "e", "n", "S", "o", "m", "B", "e", "d", "O", "m",
        "N", "o", "k", "o">>,
      <<"P", "e", "r", "i", "g", "a", "r", "d", "e", "n">>,
      <<"S", "i", "l", "k", "j", "e", "g", "u", "l", "e", "n">>,
      <<"S", "o", "l", "m", "o", "y">>,
      <<"S", "t", "r", "a", "n", "d", "a", "s", "p", "r", "i", "n", "g", "a",
        "r">>,
      <<"T", "j", "e", "d", "n", "b", "a", "l", "e", "n">>,
      <<"T", "o", "i", "n", "g", "e", "n">>,
      <<"V", "a", "l", "d", "r", "e", "s", "s", "p", "r", "i", "n", "g", "a",
        "r">>,
      <<"V", "o", "s", "s", "a", "r", "u", "l", "l">>,
      <<"S", "i", "g", "n", "e", "U", "l", "a", "d", "a", "l", "e", "n">>,
      <<"S", "p", "r", "e", "t", "t", "e", "n">> }

\* The file names the operator may place in data/raw/audio ...
AudioPool ==
    { <<"S", "o", "l", "m", "o", "y", "_", "s", "a", "d", ".", "w", "a", "v">>,
      <<"S", "o", "l", "m", "o", "y", "_", "a", "n", "g", "r", "y", ".", "w", "a", "v">>,
      <<"0", "0", "1", "2", "-", "A", ".", "w", "a", "v">>,
      <<"S", "o", "l", "m", "o", "y", "_", "s", "a", "d", ".", "m", "i", "d">> }

\* ... and in data/raw/midi.
MidiPool ==
    { <<"S", "o", "l", "m", "o", "y", "_", "s", "a", "d", ".", "m", "i", "d">>,
      <<"S", "o", "l", "m", "o", "y", "_", "a", "n", "g", "r", "y", ".", "m", "i", "d">>,
      <<"0", "0", "1", "2", "-", "A", ".", "m", "i", "d">> }

\* The contents a file may have: one byte, or empty.
FileBytes == { <<1>>, <<>> }

\* Path.exists() for a repository-relative path.
Exists(relpath) ==
    \/ /\ StartsWith(relpath, AudioPrefix)
       /\ SubSeq(relpath, Len(AudioPrefix) + 1, Len(relpath)) \in DOMAIN audio_dir
    \/ /\ StartsWith(relpath, MidiPrefix)
       /\ SubSeq(relpath, Len(MidiPrefix) + 1, Len(relpath)) \in DOMAIN midi_dir

\* The file at an existing repository-relative path.
FileAt(relpath) ==
    IF StartsWith(relpath, AudioPrefix)
    THEN audio_dir[SubSeq(relpath, Len(AudioPrefix) + 1, Len(relpath))]
    ELSE midi_dir[SubSeq(relpath, Len(MidiPrefix) + 1, Len(relpath))]

\* str(value) as csv.DictWriter writes a bool cell.
BoolCell(b) == IF b THEN <<"T", "r", "u", "e">> ELSE <<"F", "a", "l", "s", "e">>

Archival == <<"a", "r", "c", "h", "i", "v", "a", "l">>
Processed == <<"p", "r", "o", "c", "e", "s", "s", "e", "d">>
Pass == <<"p", "a", "s", "s">>
Fail == <<"f", "a", "i", "l">>

-----------------------------------------------------------------------------
(* Files as open() treats them.                                            *)

\* Whether open(path, mode) empties an existing file.
OpenTruncates(mode) == mode \in {"w", "wb"}

\* A data file after open(path, mode) ... close().
FileAfterOpen(file, mode) ==
    IF OpenTruncates(mode) THEN [file EXCEPT !.bytes = <<>>] ELSE file

\* The manifest file after open(manifest_path, mode) ... close().
ManifestAfterOpen(m, mode) ==
    IF OpenTruncates(mode) THEN [exists |-> TRUE, rows |-> <<>>] ELSE m

NoManifest == [exists |-> FALSE, rows |-> <<>>]

-----------------------------------------------------------------------------
(* scripts/build_manifest.py: main.                                        *)

\* Faulty variant: the processed marks are looked for first.
RowNotes_ProcessedFirst(song, aname) ==
    IF Contains(aname, CleanedMark) \/ Contains(aname, TorrMark) THEN Processed
    ELSE IF ArchivalMatch(song) THEN Archival
    ELSE <<>>

\* "Determine notes": archival by the song name, else processed by the
\* name of the audio file, else empty.
RowNotes(song, aname) ==
    IF ArchivalMatch(song) THEN Archival
    ELSE IF Contains(aname, CleanedMark) \/ Contains(aname, TorrMark) THEN Processed
    ELSE <<>>

\* Faulty variant: the id is the digest of the song name.
RowOfName_IdOfSong(aname) ==
    LET midi_name == PathStem(aname) \o MidExt
        audio_relpath == AudioPrefix \o aname
        midi_relpath == MidiPrefix \o midi_name
        song == extract_song_name(aname)
        emo == extract_emotion(aname)
    IN  [ id |-> sha256_string(song),
          song_name |-> song,
          audio_relpath |-> audio_relpath,
          midi_relpath |-> midi_relpath,
          audio_ext |-> WavExt,
          midi_ext |-> MidExt,
          has_emotional_variations |-> song \in SONGS_WITH_VARIATIONS,
          emotion |-> IF emo = None \/ emo = <<>> THEN <<>> ELSE emo,
          notes |-> RowNotes(song, aname) ]

\* The part of a row that the file name alone decides: "Generate
\* deterministic ID", "Extract metadata" and "Determine notes".
RowOfName(aname) ==
    LET midi_name == PathStem(aname) \o MidExt
        audio_relpath == AudioPrefix \o aname
        midi_relpath == MidiPrefix \o midi_name
        song == extract_song_name(aname)
        emo == extract_emotion(aname)
    IN  [ id |-> sha256_string(audio_relpath \o <<":">> \o midi_relpath),
          song_name |-> song,
          audio_relpath |-> audio_relpath,
          midi_relpath |-> midi_relpath,
          audio_ext |-> WavExt,
          midi_ext |-> MidExt,
          has_emotional_variations |-> song \in SONGS_WITH_VARIATIONS,
          emotion |-> IF emo = None \/ emo = <<>> THEN <<>> ELSE emo,
          notes |-> RowNotes(song, aname) ]

\* RowOfName, tabulated over the file names of the audio pool.
RowOfNameTable == [aname \in AudioPool |-> RowOfName(aname)]

\* The row dict appended for the audio file named aname, whose MIDI
\* counterpart exists and whose two files could be hashed ("Compute
\* checksums" and rows.append).
BuildRow(aname) ==
    LET r == RowOfNameTable[aname]
    IN  [ id |-> r.id,
          song_name |-> r.song_name,
          audio_relpath |-> r.audio_relpath,
          midi_relpath |-> r.midi_relpath,
          audio_sha256 |-> sha256_file(audio_dir[aname]),
          midi_sha256 |-> sha256_file(midi_dir[PathStem(aname) \o MidExt]),
          audio_ext |-> r.audio_ext,
          midi_ext |-> r.midi_ext,
          has_emotional_variations |-> r.has_emotional_variations,
          emotion |-> r.emotion,
          notes |-> r.notes ]

RECURSIVE BuildLoop(_, _)

\* Faulty variant: the loop ends at the first audio file without MIDI
\* counterpart instead of going on to the next file.
BuildLoop_StopAtUnpaired(files, acc) ==
    IF files = <<>> THEN acc
    ELSE LET aname == Head(files)
             midi_name == PathStem(aname) \o MidExt
         IN  IF midi_name \notin DOMAIN midi_dir
             THEN [acc EXCEPT !.warnings = Append(@, aname)]
             ELSE IF ~audio_dir[aname].readable \/ ~midi_dir[midi_name].readable
             THEN [acc EXCEPT !.raised = TRUE]
             ELSE BuildLoop(Tail(files), [acc EXCEPT !.rows = Append(@, BuildRow(aname))])

\* The loop "for audio_path in audio_files" over the remaining files; acc
\* holds the rows and the warnings so far, and whether a hash raised.
BuildLoop(files, acc) ==
    IF files = <<>> THEN acc
    ELSE LET aname == Head(files)
             midi_name == PathStem(aname) \o MidExt
         IN  IF midi_name \notin DOMAIN midi_dir
             THEN BuildLoop(Tail(files), [acc EXCEPT !.warnings = Append(@, aname)])
             ELSE IF ~audio_dir[aname].readable \/ ~midi_dir[midi_name].readable
             THEN [acc EXCEPT !.raised = TRUE]
             ELSE BuildLoop(Tail(files), [acc EXCEPT !.rows = Append(@, BuildRow(aname))])

\* Sorted, tabulated over the sets of file names of the audio pool.
SortedTable == [S \in SUBSET AudioPool |-> Sorted(S)]

\* sorted(audio_dir.glob("*.wav"))
AudioFiles == SortedTable[{ n \in DOMAIN audio_dir : EndsWith(n, WavExt) }]

\* csv.DictWriter: every cell is written as str(value).
CsvRow(row) ==
    [row EXCEPT !.has_emotional_variations = BoolCell(@)]

\* Faulty variant: the rows are added to those the manifest holds.
WriteManifest_Append(old, rows) ==
    [exists |-> TRUE, rows |-> old.rows \o [i \in 1..Len(rows) |-> CsvRow(rows[i])]]

\* "Write CSV": open(manifest_path, "w"), writeheader, writerows(rows).
WriteManifest(old, rows) ==
    [exists |-> TRUE,
     rows |-> ManifestAfterOpen(old, "w").rows \o [i \in 1..Len(rows) |-> CsvRow(rows[i])]]

\* The lines the builder prints after writing the manifest.
BuildSummary(rows) ==
    [ total_pairs |-> Len(rows),
      unique_songs |-> Cardinality({ rows[i].song_name : i \in 1..Len(rows) }),
      songs_with_variations |->
          Cardinality({ i \in 1..Len(rows) : rows[i].has_emotional_variations }) ]

NoSummary == [total_pairs |-> 0, unique_songs |-> 0, songs_with_variations |-> 0]

\* One run of build_manifest.py.
Build ==
    LET run == BuildLoop(AudioFiles, [rows |-> <<>>, warnings |-> <<>>, raised |-> FALSE])
    IN  /\ manifest' = IF run.raised THEN manifest ELSE WriteManifest(manifest, run.rows)
        /\ build_out' =
              IF run.raised
              THEN [status |-> "raised", warnings |-> run.warnings,
                    summary |-> NoSummary, exit_code |-> 1]
              ELSE [status |-> "completed", warnings |-> run.warnings,
                    summary |-> BuildSummary(run.rows), exit_code |-> 0]
        /\ built' = ~run.raised
        /\ UNCHANGED <<audio_dir, midi_dir, report, val_out, changes>>
        /\ UNCHANGED <<cls_vars, tool_vars>>

-----------------------------------------------------------------------------
(* scripts/validate_dataset.py: main.                                      *)

\* Faulty variant: the manifest is opened for writing.
ManifestOpenMode_Write == "w"

\* The mode in which the validator opens the manifest ...
ManifestOpenMode == "r"

\* ... and the mode in which its sha256_file opens a data file.
HashOpenMode == "rb"

\* Faulty variant: the chunks read are never fed to the hash.
validate_sha256_file_NoUpdate(file) == HexDigest(<<>>)

\* validate_dataset.py's own sha256_file of a readable file: the chunks of
\* f.read(8192) are fed to the hash in file order.
validate_sha256_file(file) == HexDigest(UpdateChunks(<<>>, file.bytes))

\* Faulty variant: the mismatch entry holds the two digests the wrong way
\* round.
CheckFile_Swapped(relpath, expected, acc) ==
    IF ~Exists(relpath)
    THEN [acc EXCEPT !.missing_files = Append(@, relpath), !.status = Fail]
    ELSE IF ~FileAt(relpath).readable
    THEN [acc EXCEPT !.raised = TRUE]
    ELSE LET computed == validate_sha256_file(FileAt(relpath))
             opened == [acc EXCEPT !.opened = @ \cup {relpath}]
         IN  IF computed # expected
             THEN [opened EXCEPT
                     !.checksum_mismatches =
                         Append(@, [file |-> relpath, expected |-> computed,
                                    actual |-> expected]),
                     !.status = Fail]
             ELSE opened

\* Faulty variant: a missing file is also entered as a checksum mismatch.
CheckFile_MissingAlsoMismatch(relpath, expected, acc) ==
    IF ~Exists(relpath)
    THEN [acc EXCEPT
            !.missing_files = Append(@, relpath),
            !.checksum_mismatches =
                Append(@, [file |-> relpath, expected |-> expected,
                           actual |-> HexDigest(<<>>)]),
            !.status = Fail]
    ELSE IF ~FileAt(relpath).readable
    THEN [acc EXCEPT !.raised = TRUE]
    ELSE LET computed == validate_sha256_file(FileAt(relpath))
             opened == [acc EXCEPT !.opened = @ \cup {relpath}]
         IN  IF computed # expected
             THEN [opened EXCEPT
                     !.checksum_mismatches =
                         Append(@, [file |-> relpath, expected |-> expected,
                                    actual |-> computed]),
                     !.status = Fail]
             ELSE opened

\* The existence and checksum check of one referenced file of a row:
\* "if not path.exists(): ... else: computed = sha256_file(path) ...".
CheckFile(relpath, expected, acc) ==
    IF ~Exists(relpath)
    THEN [acc EXCEPT !.missing_files = Append(@, relpath), !.status = Fail]
    ELSE IF ~FileAt(relpath).readable
    THEN [acc EXCEPT !.raised = TRUE]
    ELSE LET computed == validate_sha256_file(FileAt(relpath))
             opened == [acc EXCEPT !.opened = @ \cup {relpath}]
         IN  IF computed # expected
             THEN [opened EXCEPT
                     !.checksum_mismatches =
                         Append(@, [file |-> relpath, expected |-> expected,
                                    actual |-> computed]),
                     !.status = Fail]
             ELSE opened

\* Faulty variant: a duplicate id is listed without failing the report.
TrackRow_DuplicateNoFail(row, acc) ==
    LET dup == IF row.id \in acc.seen_ids
               THEN [acc EXCEPT !.duplicate_ids = Append(@, row.id)]
               ELSE acc
    IN  [dup EXCEPT
           !.seen_ids = @ \cup {row.id},
           !.song_names = @ \cup {row.song_name},
           !.songs_with_variations =
               IF row.has_emotional_variations = BoolCell(TRUE)
               THEN @ \cup {row.song_name} ELSE @,
           !.songs_without_variations =
               IF row.has_emotional_variations = BoolCell(TRUE)
               THEN @ ELSE @ \cup {row.song_name}]

\* "Check for duplicate IDs" and "Track songs" for one row.
TrackRow(row, acc) ==
    LET dup == IF row.id \in acc.seen_ids
               THEN [acc EXCEPT !.duplicate_ids = Append(@, row.id), !.status = Fail]
               ELSE acc
    IN  [dup EXCEPT
           !.seen_ids = @ \cup {row.id},
           !.song_names = @ \cup {row.song_name},
           !.songs_with_variations =
               IF row.has_emotional_variations = BoolCell(TRUE)
               THEN @ \cup {row.song_name} ELSE @,
           !.songs_without_variations =
               IF row.has_emotional_variations = BoolCell(TRUE)
               THEN @ ELSE @ \cup {row.song_name}]

\* The loop "for row in rows" over the remaining rows.
RECURSIVE ValidateLoop(_, _)
ValidateLoop(rows, acc) ==
    IF rows = <<>> THEN acc
    ELSE LET row == Head(rows)
             a == CheckFile(row.audio_relpath, row.audio_sha256, TrackRow(row, acc))
         IN  IF a.raised THEN a
             ELSE LET m == CheckFile(row.midi_relpath, row.midi_sha256, a)
                  IN  IF m.raised THEN m ELSE ValidateLoop(Tail(rows), m)

ValidateStart ==
    [ status |-> Pass, missing_files |-> <<>>, checksum_mismatches |-> <<>>,
      duplicate_ids |-> <<>>, seen_ids |-> {}, song_names |-> {},
      songs_with_variations |-> {}, songs_without_variations |-> {},
      opened |-> {}, raised |-> FALSE ]

NoReport ==
    [ exists |-> FALSE, status |-> <<>>, total_pairs |-> 0, unique_songs |-> 0,
      songs_with_variations |-> 0, songs_without_variations |-> 0,
      missing_files |-> <<>>, checksum_mismatches |-> <<>>, duplicate_ids |-> <<>> ]

\* Faulty variant: the rows with the flag are counted, not the songs.
ReportOf_CountRows(rows, acc) ==
    [ exists |-> TRUE, status |-> acc.status, total_pairs |-> Len(rows),
      unique_songs |-> Cardinality(acc.song_names),
      songs_with_variations |->
          Cardinality({ i \in 1..Len(rows) : rows[i].has_emotional_variations = BoolCell(TRUE) }),
      songs_without_variations |-> Cardinality(acc.songs_without_variations),
      missing_files |-> acc.missing_files,
      checksum_mismatches |-> acc.checksum_mismatches,
      duplicate_ids |-> acc.duplicate_ids ]

\* The report dict as json.dump writes it (the timestamp, which nothing
\* reads, is left out).
ReportOf(rows, acc) ==
    [ exists |-> TRUE, status |-> acc.status, total_pairs |-> Len(rows),
      unique_songs |-> Cardinality(acc.song_names),
      songs_with_variations |-> Cardinality(acc.songs_with_variations),
      songs_without_variations |-> Cardinality(acc.songs_without_variations),
      missing_files |-> acc.missing_files,
      checksum_mismatches |-> acc.checksum_mismatches,
      duplicate_ids |-> acc.duplicate_ids ]

\* "return 0 if report['status'] == 'pass' else 1", handed to exit().
ExitCodeOf(status) == IF status = Pass THEN 0 ELSE 1

\* The data directory dir after the validator has hashed the files in opened.
DirAfterHashing(dir, prefix, opened) ==
    [n \in DOMAIN dir |->
        IF (prefix \o n) \in opened THEN FileAfterOpen(dir[n], HashOpenMode) ELSE dir[n]]

\* One run of validate_dataset.py.
Validate ==
    LET acc == IF manifest.exists THEN ValidateLoop(manifest.rows, ValidateStart)
               ELSE [ValidateStart EXCEPT !.raised = TRUE]
    IN  /\ manifest' = IF manifest.exists
                       THEN ManifestAfterOpen(manifest, ManifestOpenMode)
                       ELSE manifest
        /\ audio_dir' = DirAfterHashing(audio_dir, AudioPrefix, acc.opened)
        /\ midi_dir' = DirAfterHashing(midi_dir, MidiPrefix, acc.opened)
        /\ report' = IF acc.raised THEN report ELSE ReportOf(manifest.rows, acc)
        /\ val_out' =
              IF acc.raised
              THEN [status |-> "raised", exit_code |-> 1]
              ELSE [status |-> "completed", exit_code |-> ExitCodeOf(acc.status)]
        /\ UNCHANGED <<build_out, changes, built>>
        /\ UNCHANGED <<cls_vars, tool_vars>>

-----------------------------------------------------------------------------
(* scripts/csv_to_midi.py: csv_to_midi.  A CSV note file is the field      *)
(* names of its header and its data rows; a cell is the text of a decimal  *)
(* number.  Numbers are kept in hundredths.                                *)

\* The columns csv_to_midi reads.
RequiredColumns == {"onset", "offset", "onpitch"}

\* The value of a string of decimal digits.
RECURSIVE DigitsValue(_)
DigitsValue(ds) ==
    IF ds = <<>> THEN 0
    ELSE 10 * DigitsValue(SubSeq(ds, 1, Len(ds) - 1)) + (IndexIn(DigitChars, ds[Len(ds)]) - 1)

\* float(cell) for a cell "[-]digits[.digits]" with at most two decimals:
\* the number in hundredths.
ParseFloat(cell) ==
    LET neg == cell # <<>> /\ cell[1] = "-"
        body == IF neg THEN Tail(cell) ELSE cell
        dot == Find(body, ".")
        whole == IF dot = -1 THEN body ELSE SubSeq(body, 1, dot)
        frac == IF dot = -1 THEN <<>> ELSE SubSeq(body, dot + 2, Len(body))
        cents == IF Len(frac) = 0 THEN 0
                 ELSE IF Len(frac) = 1 THEN 10 * DigitsValue(frac)
                 ELSE DigitsValue(frac)
        mag == 100 * DigitsValue(whole) + cents
    IN  IF neg THEN 0 - mag ELSE mag

\* Faulty variant: the fraction is cut off (int() instead of round()).
PyRound_Truncate(h) == IF h >= 0 THEN h \div 100 ELSE 0 - ((0 - h) \div 100)

\* Faulty variant: a tie goes up.
PyRound_HalfUp(h) == (h + 50) \div 100

\* round(x) of Python 3 for x given in hundredths: the nearest integer, a
\* tie going to the even one.
PyRound(h) ==
    LET q == h \div 100
        r == h % 100
    IN  IF r < 50 THEN q
        ELSE IF r > 50 THEN q + 1
        ELSE IF q % 2 = 0 THEN q ELSE q + 1

\* max(0, min(127, pitch))
ClampPitch(pitch) ==
    LET low == IF pitch < 127 THEN pitch ELSE 127
    IN  IF low > 0 THEN low ELSE 0

\* pretty_midi.Note(velocity, pitch, start, end); start and end in hundredths
\* of a second.
Note(vel, pitch, start, end) ==
    [velocity |-> vel, pitch |-> pitch, start |-> start, end |-> end]

\* A MIDI file holding one instrument with the given notes.
MidiFile(notes) == [exists |-> TRUE, notes |-> notes]

\* No file at the output path.
NoMidi == [exists |-> FALSE, notes |-> <<>>]

\* What csv_to_midi has done so far: the notes appended, note_count, and the
\* exception raised, if any.
NoNotes == [notes |-> <<>>, note_count |-> 0, raised |-> "none"]

RECURSIVE ReadRows(_, _, _, _)

\* Faulty variant: a new note is put in front of the notes read so far.
ReadRows_Prepend(fieldnames, rows, vel, acc) ==
    IF rows = <<>> THEN acc
    ELSE IF "onpitch" \notin fieldnames THEN [acc EXCEPT !.raised = "KeyError"]
    ELSE IF "onset" \notin fieldnames THEN [acc EXCEPT !.raised = "KeyError"]
    ELSE IF "offset" \notin fieldnames THEN [acc EXCEPT !.raised = "KeyError"]
    ELSE LET row == Head(rows)
             pitch == ClampPitch(PyRound(ParseFloat(row.onpitch)))
             note == Note(vel, pitch, ParseFloat(row.onset), ParseFloat(row.offset))
         IN  ReadRows(fieldnames, Tail(rows), vel,
                      [acc EXCEPT !.notes = <<note>> \o @, !.note_count = @ + 1])

\* "for row in reader": row["onpitch"], row["onset"] and row["offset"] are
\* looked up in this order, and a field name missing from the header raises
\* KeyError at the first row.
ReadRows(fieldnames, rows, vel, acc) ==
    IF rows = <<>> THEN acc
    ELSE IF "onpitch" \notin fieldnames THEN [acc EXCEPT !.raised = "KeyError"]
    ELSE IF "onset" \notin fieldnames THEN [acc EXCEPT !.raised = "KeyError"]
    ELSE IF "offset" \notin fieldnames THEN [acc EXCEPT !.raised = "KeyError"]
    ELSE LET row == Head(rows)
             pitch == ClampPitch(PyRound(ParseFloat(row.onpitch)))
             note == Note(vel, pitch, ParseFloat(row.onset), ParseFloat(row.offset))
         IN  ReadRows(fieldnames, Tail(rows), vel,
                      [acc EXCEPT !.notes = Append(@, note), !.note_count = @ + 1])

\* csv_to_midi(input_csv, output_midi, velocity): the file left at the output
\* path (old is what was there before) and the value returned, or the
\* exception raised before midi_data.write.
csv_to_midi(csv, old, vel) ==
    LET read == ReadRows(csv.fieldnames, csv.rows, vel, NoNotes)
    IN  IF read.raised # "none"
        THEN [file |-> old, raised |-> read.raised, note_count |-> 0]
        ELSE [file |-> MidiFile(read.notes), raised |-> "none",
              note_count |-> read.note_count]

\* The pitch cells and the onset/offset cells of the inputs.
PitchCells ==
    { <<"6", "0", ".", "2", "5">>, <<"6", "0", ".", "7", "5">>, <<"-", "5", ".", "0">>, <<"1", "5", "0", ".", "0">>, <<"6", "4", ".", "5">>, <<"6", "5", ".", "5">>, <<"6", "4">>, <<"1", "2", "7", ".", "4">>,
      <<"0", ".", "5">>, <<"1", "2", "6", ".", "5">> }

TimeCells == { <<<<"0", ".", "0">>, <<"0", ".", "5">>>>, <<<<"1", ".", "2", "5">>, <<"2">>>> }

RowPool ==
    { [onset |-> t[1], offset |-> t[2], onpitch |-> p] : t \in TimeCells, p \in PitchCells }

\* The CSV note files with at most MaxRows data rows.
CsvInputs ==
    { [fieldnames |-> f, rows |-> r] :
        f \in SUBSET RequiredColumns,
        r \in UNION { [1..n -> RowPool] : n \in 0..MaxRows } }

\* A MIDI file left at the output path by an earlier run.
OldMidi == MidiFile(<<Note(100, 1, 0, 100)>>)

NoCsv == [fieldnames |-> {}, rows |-> <<>>]

NotCalled == [status |-> "none", raised |-> "none", note_count |-> 0]

\* csv_to_midi has not been called.
InitConvertIdle ==
    /\ input_csv = NoCsv
    /\ output_midi = NoMidi
    /\ velocity = 100
    /\ result = NotCalled

-----------------------------------------------------------------------------
(* scripts/csv_to_midi.py: process_directory, process_alternatives, main.  *)
(* A directory tree is a function from paths to files; a path is the       *)
(* sequence of its components below the root.                              *)

CsvExt == <<".", "c", "s", "v">>

\* csv_path.with_suffix(".mid").name
WithSuffixMid(name) == PathStem(name) \o MidExt

\* p < q for two paths: component by component.
RECURSIVE PathLess(_, _)
PathLess(p, q) ==
    IF q = <<>> THEN FALSE
    ELSE IF p = <<>> THEN TRUE
    ELSE IF Head(p) = Head(q) THEN PathLess(Tail(p), Tail(q))
    ELSE StrLess(Head(p), Head(q))

\* sorted(...) for a set of paths.
RECURSIVE SortedPaths(_)
SortedPaths(S) ==
    IF S = {} THEN <<>>
    ELSE LET m == CHOOSE x \in S : \A y \in S \ {x} : PathLess(x, y)
         IN  <<m>> \o SortedPaths(S \ {m})

\* Faulty variant: the pattern is searched in the directories below as well
\* (rglob).
GlobCsv_Recursive(files, dir) ==
    { p \in DOMAIN files :
        /\ Len(p) > Len(dir)
        /\ SubSeq(p, 1, Len(dir)) = dir
        /\ EndsWith(p[Len(p)], CsvExt) }

\* dir.glob("*.csv"): the files directly inside the directory dir whose name
\* ends with .csv.
GlobCsv(files, dir) ==
    { p \in DOMAIN files :
        /\ Len(p) = Len(dir) + 1
        /\ SubSeq(p, 1, Len(dir)) = dir
        /\ EndsWith(p[Len(p)], CsvExt) }

\* The entries of csv_alt_dir.iterdir() that are directories.
SongDirs(files) == { <<p[1]>> : p \in { q \in DOMAIN files : Len(q) >= 2 } }

\* results[key] = count
PutResult(results, key, count) ==
    { e \in results : e.key # key } \cup { [key |-> key, count |-> count] }

\* Path.exists() of a path below the MIDI output directory.
MidiExists(midi, path) == path \in DOMAIN midi

\* The file at a path below the MIDI output directory, if any.
MidiAt(midi, path) == IF path \in DOMAIN midi THEN midi[path] ELSE NoMidi

\* midi_data.write at a path below the MIDI output directory.
MidiWrite(midi, path, file) ==
    [q \in DOMAIN midi \cup {path} |-> IF q = path THEN file ELSE midi[q]]

\* The velocity parameter's default, which both batch functions rely on.
DefaultVelocity == 100

\* Faulty variant: an existing output is converted again without force.
ConvertOne_NoSkip(csv, midi_path, key, force, acc) ==
    LET run == csv_to_midi(csv, MidiAt(acc.midi, midi_path), DefaultVelocity)
    IN  IF run.raised = "none"
        THEN [acc EXCEPT !.midi = MidiWrite(@, midi_path, run.file),
                         !.written = @ \cup {midi_path},
                         !.results = PutResult(@, key, run.note_count)]
        ELSE [acc EXCEPT !.results = PutResult(@, key, 0 - 1)]

\* The body of the loop over the CSV files, the same in process_directory
\* and process_alternatives: skip an existing output unless force is set,
\* else convert, recording the note count, or -1 if the conversion raised.
ConvertOne(csv, midi_path, key, force, acc) ==
    IF MidiExists(acc.midi, midi_path) /\ ~force THEN acc
    ELSE LET run == csv_to_midi(csv, MidiAt(acc.midi, midi_path), DefaultVelocity)
         IN  IF run.raised = "none"
             THEN [acc EXCEPT !.midi = MidiWrite(@, midi_path, run.file),
                              !.written = @ \cup {midi_path},
                              !.results = PutResult(@, key, run.note_count)]
             ELSE [acc EXCEPT !.results = PutResult(@, key, 0 - 1)]

\* "for csv_path in csv_files" of process_directory.
RECURSIVE DirectoryLoop(_, _, _, _)
DirectoryLoop(files, paths, force, acc) ==
    IF paths = <<>> THEN acc
    ELSE LET p == Head(paths)
             name == p[Len(p)]
         IN  DirectoryLoop(files, Tail(paths), force,
                           ConvertOne(files[p], <<WithSuffixMid(name)>>, name, force, acc))

\* process_directory(csv_dir, midi_dir, force), csv_dir being the root of
\* the tree files and midi the tree below midi_dir.
process_directory(files, midi, force) ==
    DirectoryLoop(files, SortedPaths(GlobCsv(files, <<>>)), force,
                  [midi |-> midi, written |-> {}, results |-> {}])

\* "for csv_path in sorted(song_dir.glob('*.csv'))" of process_alternatives.
RECURSIVE SongLoop(_, _, _, _, _)
SongLoop(files, song, paths, force, acc) ==
    IF paths = <<>> THEN acc
    ELSE LET p == Head(paths)
             name == p[Len(p)]
         IN  SongLoop(files, song, Tail(paths), force,
                      ConvertOne(files[p], song \o <<WithSuffixMid(name)>>,
                                 song[1] \o <<"/">> \o name, force, acc))

\* "for song_dir in sorted(csv_alt_dir.iterdir())" of process_alternatives.
RECURSIVE AlternativesLoop(_, _, _, _)
AlternativesLoop(files, songs, force, acc) ==
    IF songs = <<>> THEN acc
    ELSE AlternativesLoop(files, Tail(songs), force,
                          SongLoop(files, Head(songs),
                                   SortedPaths(GlobCsv(files, Head(songs))), force, acc))

\* process_alternatives(csv_alt_dir, midi_alt_dir, force); exists tells
\* whether csv_alt_dir exists.
process_alternatives(exists, files, midi, force) ==
    IF ~exists THEN [midi |-> midi, written |-> {}, results |-> {}]
    ELSE AlternativesLoop(files, SortedPaths(SongDirs(files)), force,
                          [midi |-> midi, written |-> {}, results |-> {}])

\* The CSV files of the batch inputs: one that converts and one whose header
\* lacks onpitch.
GoodCsv ==
    [fieldnames |-> RequiredColumns,
     rows |-> <<[onset |-> <<"0", ".", "0">>, offset |-> <<"0", ".", "5">>, onpitch |-> <<"6", "0", ".", "7", "5">>]>>]

BadCsv ==
    [fieldnames |-> {"onset", "offset"},
     rows |-> <<[onset |-> <<"0", ".", "0">>, offset |-> <<"0", ".", "5">>, onpitch |-> <<"6", "0", ".", "7", "5">>]>>]

\* The paths of the input tree: one file at the root, three inside song
\* directories and one a level deeper ...
CsvPaths ==
    { <<<<"r", ".", "c", "s", "v">>>>,
      <<<<"S">>, <<"a", ".", "c", "s", "v">>>>, <<<<"S">>, <<"b", ".", "c", "s", "v">>>>, <<<<"T">>, <<"a", ".", "c", "s", "v">>>>,
      <<<<"S">>, <<"N">>, <<"c", ".", "c", "s", "v">>>> }

\* The paths at which the file may be the one lacking a column.
MayBeBad == { <<<<"r", ".", "c", "s", "v">>>>, <<<<"S">>, <<"a", ".", "c", "s", "v">>>> }

\* ... and the paths at which an output of an earlier run may lie.
MidiPaths ==
    { <<<<"r", ".", "m", "i", "d">>>>, <<<<"S">>, <<"a", ".", "m", "i", "d">>>>, <<<<"S">>, <<"b", ".", "m", "i", "d">>>>, <<<<"T">>, <<"a", ".", "m", "i", "d">>>> }

NoTree == [p \in {} |-> NoMidi]

NoRun ==
    [mode |-> "none", status |-> "none", force |-> FALSE, velocity |-> DefaultVelocity,
     results |-> {}, written |-> {}, exit_code |-> 0]

\* The command line tool has not run.
InitBatchIdle ==
    /\ csv_root = [exists |-> FALSE, files |-> NoTree]
    /\ midi_root = NoTree
    /\ cli = NoRun

\* sys.exit(code) before any conversion, after an error message.
UsageError(mode, force, vel) ==
    [mode |-> mode, status |-> "usage", force |-> force, velocity |-> vel,
     results |-> {}, written |-> {}, exit_code |-> 1]

\* main, "--alternatives DIR [--midi-dir DIR] [--force] [--velocity V]".
MainAlternatives ==
    /\ cli.status = "none"
    /\ \E force \in BOOLEAN, vel \in {DefaultVelocity, 64}, midi_dir_given \in BOOLEAN :
          IF ~midi_dir_given
          THEN /\ cli' = UsageError("alternatives", force, vel)
               /\ midi_root' = midi_root
          ELSE LET run == process_alternatives(csv_root.exists, csv_root.files,
                                               midi_root, force)
               IN  /\ midi_root' = run.midi
                   /\ cli' = [mode |-> "alternatives", status |-> "completed",
                              force |-> force, velocity |-> vel,
                              results |-> run.results, written |-> run.written,
                              exit_code |-> 0]
    /\ UNCHANGED csv_root
    /\ UNCHANGED <<cls_vars, data_vars, conv_vars, health, pub>>

\* main, no input path and no --alternatives.
MainNoInput ==
    /\ cli.status = "none"
    /\ \E force \in BOOLEAN, vel \in {DefaultVelocity, 64} :
          cli' = UsageError("none", force, vel)
    /\ UNCHANGED <<csv_root, midi_root>>
    /\ UNCHANGED <<cls_vars, data_vars, conv_vars, health, pub>>

\* main, "FILE -o OUT [--force] [--velocity V]": the input is a file of the
\* tree and OUT the path of the same name with suffix .mid below the output
\* directory.
MainSingle ==
    \E p \in DOMAIN csv_root.files, force \in BOOLEAN, vel \in {DefaultVelocity, 64} :
        LET out == SubSeq(p, 1, Len(p) - 1) \o <<WithSuffixMid(p[Len(p)])>>
        IN  /\ cli.status = "none"
            /\ IF MidiExists(midi_root, out) /\ ~force
               THEN /\ cli' = UsageError("single", force, vel)
                    /\ midi_root' = midi_root
               ELSE LET run == csv_to_midi(csv_root.files[p], MidiAt(midi_root, out), vel)
                    IN  IF run.raised = "none"
                        THEN /\ midi_root' = MidiWrite(midi_root, out, run.file)
                             /\ cli' = [mode |-> "single", status |-> "completed",
                                        force |-> force, velocity |-> vel,
                                        results |-> {[key |-> p[Len(p)],
                                                      count |-> run.note_count]},
                                        written |-> {out}, exit_code |-> 0]
                        ELSE /\ midi_root' = midi_root
                             /\ cli' = [mode |-> "single", status |-> "raised",
                                        force |-> force, velocity |-> vel,
                                        results |-> {}, written |-> {}, exit_code |-> 1]
            /\ UNCHANGED csv_root
            /\ UNCHANGED <<cls_vars, data_vars, conv_vars, health, pub>>

\* main, "DIR [--midi-dir DIR] [--force] [--velocity V]", DIR being the root
\* of the tree.
MainDirectory ==
    /\ cli.status = "none"
    /\ csv_root.exists
    /\ \E force \in BOOLEAN, vel \in {DefaultVelocity, 64}, midi_dir_given \in BOOLEAN :
          IF ~midi_dir_given
          THEN /\ cli' = UsageError("directory", force, vel)
               /\ midi_root' = midi_root
          ELSE LET run == process_directory(csv_root.files, midi_root, force)
               IN  /\ midi_root' = run.midi
                   /\ cli' = [mode |-> "directory", status |-> "completed",
                              force |-> force, velocity |-> vel,
                              results |-> run.results, written |-> run.written,
                              exit_code |-> 0]
    /\ UNCHANGED csv_root
    /\ UNCHANGED <<cls_vars, data_vars, conv_vars, health, pub>>

\* main, an input path that is neither a file nor a directory.
MainNotFound ==
    /\ cli.status = "none"
    /\ ~csv_root.exists
    /\ \E force \in BOOLEAN, vel \in {DefaultVelocity, 64} :
          cli' = UsageError("notfound", force, vel)
    /\ UNCHANGED <<csv_root, midi_root>>
    /\ UNCHANGED <<cls_vars, data_vars, conv_vars, health, pub>>

-----------------------------------------------------------------------------
(* scripts/check_midi_health.py.  A MIDI file is given as mido decodes it: *)
(* whether it loads, its messages and its length.  Durations are kept in   *)
(* hundredths of a second.                                                 *)

\* str(n) for an integer n >= 0.
RECURSIVE IntStr(_)
IntStr(n) ==
    IF n < 10 THEN <<DigitChars[n + 1]>>
    ELSE IntStr(n \div 10) \o <<DigitChars[(n % 10) + 1]>>

\* f"{x:.2f}" for x >= 0 given in hundredths.
Format2f(h) ==
    IntStr(h \div 100) \o <<".">> \o <<DigitChars[((h % 100) \div 10) + 1]>>
        \o <<DigitChars[(h % 10) + 1]>>

\* str(x) for a float x >= 0 with one decimal, given in hundredths.
FloatStr(h) ==
    IntStr(h \div 100) \o <<".">> \o <<DigitChars[((h % 100) \div 10) + 1]>>

MIN_PITCH == 21 - 12
MAX_PITCH == 108 + 12

\* MIN_DURATION_SEC = 1.0 and MAX_DURATION_SEC = 600.0 of check_midi_health.py.
MIDI_MIN_DURATION_SEC == 100
MIDI_MAX_DURATION_SEC == 60000

\* The text of the exception a file that does not load raises.
LoadError == <<"u", "n", "r", "e", "a", "d", "a", "b", "l", "e">>

\* The pitches of the notes of a loaded file: msg.note of every note_on
\* message with velocity > 0, over all tracks.
RECURSIVE CollectNotes(_)
CollectNotes(msgs) ==
    IF msgs = <<>> THEN <<>>
    ELSE IF Head(msgs).type = "note_on" /\ Head(msgs).velocity > 0
    THEN <<Head(msgs).note>> \o CollectNotes(Tail(msgs))
    ELSE CollectNotes(Tail(msgs))

\* min(notes) and max(notes)
MinOf(s) == CHOOSE x \in Range(s) : \A y \in Range(s) : x <= y
MaxOf(s) == CHOOSE x \in Range(s) : \A y \in Range(s) : x >= y

\* The four threshold checks of check_midi_file, in order.
MidiThresholdIssues(notes, duration_sec) ==
    (IF MinOf(notes) < MIN_PITCH
     THEN <<<<"P", "i", "t", "c", "h", " ">> \o IntStr(MinOf(notes)) \o <<" ", "i", "s", " ", "b", "e", "l", "o", "w", " ", "e", "x", "t", "e", "n", "d", "e", "d", " ", "r", "a", "n", "g", "e", " ", "(", "m", "i", "n", ":", " ">>
              \o IntStr(MIN_PITCH) \o <<")">>>>
     ELSE <<>>)
    \o (IF MaxOf(notes) > MAX_PITCH
        THEN <<<<"P", "i", "t", "c", "h", " ">> \o IntStr(MaxOf(notes)) \o <<" ", "i", "s", " ", "a", "b", "o", "v", "e", " ", "e", "x", "t", "e", "n", "d", "e", "d", " ", "r", "a", "n", "g", "e", " ", "(", "m", "a", "x", ":", " ">>
                 \o IntStr(MAX_PITCH) \o <<")">>>>
        ELSE <<>>)
    \o (IF duration_sec < MIDI_MIN_DURATION_SEC
        THEN <<<<"D", "u", "r", "a", "t", "i", "o", "n", " ">> \o Format2f(duration_sec) \o <<"s", " ", "i", "s", " ", "b", "e", "l", "o", "w", " ", "m", "i", "n", "i", "m", "u", "m", " ", "(">>
                 \o FloatStr(MIDI_MIN_DURATION_SEC) \o <<"s", ")">>>>
        ELSE <<>>)
    \o (IF duration_sec > MIDI_MAX_DURATION_SEC
        THEN <<<<"D", "u", "r", "a", "t", "i", "o", "n", " ">> \o Format2f(duration_sec) \o <<"s", " ", "e", "x", "c", "e", "e", "d", "s", " ", "m", "a", "x", "i", "m", "u", "m", " ", "(">>
                 \o FloatStr(MIDI_MAX_DURATION_SEC) \o <<"s", ")">>>>
        ELSE <<>>)

\* any("No notes" in issue or "Failed to load" in issue for issue in issues)
MidiHasCritical(issues) ==
    \E i \in 1..Len(issues) :
        Contains(issues[i], <<"N", "o", " ", "n", "o", "t", "e", "s">>) \/ Contains(issues[i], <<"F", "a", "i", "l", "e", "d", " ", "t", "o", " ", "l", "o", "a", "d">>)

\* check_midi_file(filepath): valid, issues, and the note count of the
\* metadata (0 when the file did not load).
check_midi_file(file) ==
    IF ~file.loadable
    THEN [valid |-> FALSE,
          issues |-> <<<<"F", "a", "i", "l", "e", "d", " ", "t", "o", " ", "l", "o", "a", "d", " ", "M", "I", "D", "I", " ", "f", "i", "l", "e", ":", " ">> \o LoadError>>,
          note_count |-> 0]
    ELSE LET notes == CollectNotes(file.msgs)
         IN  IF Len(notes) = 0
             THEN [valid |-> FALSE,
                   issues |-> <<<<"N", "o", " ", "n", "o", "t", "e", "s", " ", "f", "o", "u", "n", "d", " ", "i", "n", " ", "M", "I", "D", "I", " ", "f", "i", "l", "e">>>>,
                   note_count |-> 0]
             ELSE LET issues == MidiThresholdIssues(notes, file.duration)
                  IN  [valid |-> ~MidiHasCritical(issues),
                       issues |-> issues,
                       note_count |-> Len(notes)]

\* The number of results r with P(r).
CountOf(results, P(_)) == Cardinality({ i \in 1..Len(results) : P(results[i]) })

IsValid(r) == r.valid
IsWarned(r) == r.valid /\ r.issues # <<>>

\* "Build report": the status, "pass" if no file is invalid, and "fail" as
\* well if strict is set and a valid file has issues.
HealthStatus(results, strict) ==
    LET valid_count == CountOf(results, IsValid)
        invalid_count == Len(results) - valid_count
        warning_count == CountOf(results, IsWarned)
    IN  IF strict /\ warning_count > 0 THEN Fail
        ELSE IF invalid_count = 0 THEN Pass ELSE Fail

\* The report dict of a health check (the timestamp is left out).
HealthReport(results, strict) ==
    [ exists |-> TRUE,
      status |-> HealthStatus(results, strict),
      total_files |-> Len(results),
      valid_files |-> CountOf(results, IsValid),
      invalid_files |-> Len(results) - CountOf(results, IsValid),
      files_with_warnings |-> CountOf(results, IsWarned) ]

NoHealthReport ==
    [ exists |-> FALSE, status |-> <<>>, total_files |-> 0, valid_files |-> 0,
      invalid_files |-> 0, files_with_warnings |-> 0 ]

\* The messages of the MIDI files of the inputs ...
NoteOn(note, vel) == [type |-> "note_on", note |-> note, velocity |-> vel]

MidiMessages ==
    { <<>>,
      <<NoteOn(60, 0), [type |-> "note_off", note |-> 60, velocity |-> 64]>>,
      <<NoteOn(60, 90)>>,
      <<NoteOn(5, 90), NoteOn(60, 90)>>,
      <<NoteOn(60, 90), NoteOn(125, 90)>>,
      <<NoteOn(125, 90), NoteOn(5, 90)>> }

\* ... and their lengths: half a second, ten seconds, 700 seconds.
MidiDurations == {50, 1000, 70000}

\* The MIDI files given to the checker.
MidiInputs ==
    { [loadable |-> TRUE, msgs |-> m, duration |-> d] : m \in MidiMessages, d \in MidiDurations }
    \cup { [loadable |-> FALSE, msgs |-> <<>>, duration |-> 0] }

\* The health checkers have not run.
NoCheck ==
    [ tool |-> "none", kind |-> "missing", files |-> <<>>, strict |-> FALSE,
      status |-> "none", results |-> <<>>, report |-> NoHealthReport, exit_code |-> 0 ]

InitHealthIdle == health = NoCheck

\* One run of check_midi_health.py on the path described by health.kind: a
\* file, a directory (health.files being its *.mid files in sorted order),
\* or nothing.
MidiMain ==
    /\ health.tool = "midi"
    /\ health.status = "none"
    /\ IF health.kind = "missing" \/ health.files = <<>>
       THEN health' = [health EXCEPT !.status = "usage", !.exit_code = 1]
       ELSE LET results == [i \in 1..Len(health.files) |-> check_midi_file(health.files[i])]
                rep == HealthReport(results, health.strict)
            IN  health' = [health EXCEPT
                             !.status = "completed",
                             !.results = results,
                             !.report = rep,
                             !.exit_code = IF rep.status = Pass THEN 0 ELSE 1]
    /\ UNCHANGED <<cls_vars, data_vars, conv_vars, batch_vars, pub>>

-----------------------------------------------------------------------------
(* scripts/check_audio_health.py.  An audio file is given as soundfile     *)
(* decodes it to mono: whether it loads, the number of samples, the sample *)
(* rate, the peak |x| in units of 1e-7, the number of samples above one    *)
(* hundredth of the peak, and the number of samples with |x| >= 0.9999.    *)

\* In main, "global MIN_DURATION_SEC, MAX_DURATION_SEC" stands after the two
\* names have been used (as defaults of --min-duration and --max-duration):
\* Python rejects the module with "SyntaxError: name 'MIN_DURATION_SEC' is
\* used prior to global declaration" before any of it runs.
GlobalDeclaredAfterUse == TRUE

\* MIN_DURATION_SEC = 5.0 and MAX_DURATION_SEC = 300.0 of
\* check_audio_health.py, in hundredths of a second.
AUDIO_MIN_DURATION_SEC == 500
AUDIO_MAX_DURATION_SEC == 30000

\* MIN_NON_SILENT_RATIO = 0.10 and CLIPPING_THRESHOLD = 0.001, as the
\* divisors 1 / ratio.
MIN_NON_SILENT_DIVISOR == 10
CLIPPING_DIVISOR == 1000

\* "max_amplitude < 1e-6", the peak being in units of 1e-7.
SilencePeak == 10

\* any(any(crit in issue for crit in critical_issues) for issue in issues)
AudioHasCritical(issues) ==
    \E i \in 1..Len(issues) :
        Contains(issues[i], <<"F", "a", "i", "l", "e", "d", " ", "t", "o", " ", "l", "o", "a", "d">>) \/ Contains(issues[i], <<"c", "o", "m", "p", "l", "e", "t", "e", "l", "y", " ", "s", "i", "l", "e", "n", "t">>)

\* check_audio_file(filepath) as written: valid and issues, or the exception
\* that np.max raises on an array without samples.
check_audio_file(file) ==
    IF ~file.loadable
    THEN [raised |-> "none", valid |-> FALSE,
          issues |-> <<<<"F", "a", "i", "l", "e", "d", " ", "t", "o", " ", "l", "o", "a", "d", " ", "a", "u", "d", "i", "o", " ", "f", "i", "l", "e", ":", " ">> \o LoadError>>]
    ELSE LET duration_sec == (100 * file.samples) \div file.sample_rate
             dur ==
                 (IF duration_sec < AUDIO_MIN_DURATION_SEC
                  THEN <<<<"D", "u", "r", "a", "t", "i", "o", "n", " ">> \o Format2f(duration_sec) \o <<"s", " ", "i", "s", " ", "b", "e", "l", "o", "w", " ", "m", "i", "n", "i", "m", "u", "m", " ", "(">>
                           \o FloatStr(AUDIO_MIN_DURATION_SEC) \o <<"s", ")">>>>
                  ELSE <<>>)
                 \o (IF duration_sec > AUDIO_MAX_DURATION_SEC
                     THEN <<<<"D", "u", "r", "a", "t", "i", "o", "n", " ">> \o Format2f(duration_sec) \o <<"s", " ", "e", "x", "c", "e", "e", "d", "s", " ", "m", "a", "x", "i", "m", "u", "m", " ", "(">>
                              \o FloatStr(AUDIO_MAX_DURATION_SEC) \o <<"s", ")">>>>
                     ELSE <<>>)
         IN  IF file.samples = 0
             THEN [raised |-> "ValueError", valid |-> TRUE, issues |-> dur]
             ELSE LET silence ==
                          IF file.peak < SilencePeak
                          THEN <<<<"A", "u", "d", "i", "o", " ", "f", "i", "l", "e", " ", "a", "p", "p", "e", "a", "r", "s", " ", "t", "o", " ", "b", "e", " ", "c", "o", "m", "p", "l", "e", "t", "e", "l", "y", " ", "s", "i", "l", "e", "n", "t">>>>
                          ELSE IF MIN_NON_SILENT_DIVISOR * file.non_silent < file.samples
                          THEN <<<<"O", "n", "l", "y", " ">> \o IntStr((100 * file.non_silent) \div file.samples)
                                   \o <<"%", " ", "o", "f", " ", "s", "a", "m", "p", "l", "e", "s", " ", "a", "r", "e", " ", "n", "o", "n", "-", "s", "i", "l", "e", "n", "t", " ", "(", "m", "i", "n", "i", "m", "u", "m", ":", " ", "1", "0", "%", ")">>>>
                          ELSE <<>>
                      clipping ==
                          IF CLIPPING_DIVISOR * file.clipped > file.samples
                          THEN <<<<"P", "o", "s", "s", "i", "b", "l", "e", " ", "c", "l", "i", "p", "p", "i", "n", "g", " ", "d", "e", "t", "e", "c", "t", "e", "d", ":", " ">>
                                   \o IntStr((100 * file.clipped) \div file.samples)
                                   \o <<"%", " ", "o", "f", " ", "s", "a", "m", "p", "l", "e", "s", " ", "a", "t", " ", "m", "a", "x", " ", "a", "m", "p", "l", "i", "t", "u", "d", "e">>>>
                          ELSE <<>>
                      issues == dur \o silence \o clipping
                  IN  [raised |-> "none", valid |-> ~AudioHasCritical(issues),
                       issues |-> issues]

\* The audio files given to the checker: ten seconds of sound, the same
\* clipped, the same nearly all silence, three seconds of sound, ten seconds
\* of silence, ten seconds below 1e-6, no samples, and a file that does not
\* load.
Audio(samples, peak, non_silent, clipped) ==
    [loadable |-> TRUE, samples |-> samples, sample_rate |-> 10, peak |-> peak,
     non_silent |-> non_silent, clipped |-> clipped]

AudioInputs ==
    { Audio(100, 5000000, 80, 0), Audio(100, 10000000, 80, 5), Audio(100, 5000000, 5, 0),
      Audio(30, 5000000, 20, 0), Audio(100, 0, 0, 0), Audio(100, 5, 50, 0),
      Audio(0, 0, 0, 0),
      [loadable |-> FALSE, samples |-> 0, sample_rate |-> 10, peak |-> 0,
       non_silent |-> 0, clipped |-> 0] }

\* One run of check_audio_health.py on the path described by health.kind.
AudioMain ==
    /\ health.tool = "audio"
    /\ health.status = "none"
    /\ IF GlobalDeclaredAfterUse
       THEN health' = [health EXCEPT !.status = "raised", !.exit_code = 1]
       ELSE IF health.kind = "missing" \/ health.files = <<>>
       THEN health' = [health EXCEPT !.status = "usage", !.exit_code = 1]
       ELSE LET checked == [i \in 1..Len(health.files) |-> check_audio_file(health.files[i])]
                results == [i \in 1..Len(checked) |->
                               [valid |-> checked[i].valid, issues |-> checked[i].issues,
                                note_count |-> 0]]
                rep == HealthReport(results, health.strict)
            IN  IF \E i \in 1..Len(checked) : checked[i].raised # "none"
                THEN health' = [health EXCEPT !.status = "raised", !.exit_code = 1]
                ELSE health' = [health EXCEPT
                                  !.status = "completed",
                                  !.results = results,
                                  !.report = rep,
                                  !.exit_code = IF rep.status = Pass THEN 0 ELSE 1]
    /\ UNCHANGED <<cls_vars, data_vars, conv_vars, batch_vars, pub>>

-----------------------------------------------------------------------------
(* scripts/publish_to_huggingface.py.  A run of publish is followed        *)
(* statement by statement; pub.pc is the statement to execute next.  The   *)
(* environment of the run (what git prints, whether huggingface_hub is     *)
(* installed, whether the export and the upload succeed) is part of pub.   *)

IsSpace(c) == c \in {" ", "\n", "\t", "\r"}

\* str.strip(): the text without leading and trailing whitespace.
RECURSIVE StripWs(_)
StripWs(s) ==
    IF s = <<>> THEN <<>>
    ELSE IF IsSpace(Head(s)) THEN StripWs(Tail(s))
    ELSE IF IsSpace(s[Len(s)]) THEN StripWs(SubSeq(s, 1, Len(s) - 1))
    ELSE s

\* None, and a tag name, as get_git_tag returns them.
NoTag == [some |-> FALSE, name |-> <<>>]
Tag(name) == [some |-> TRUE, name |-> name]

\* get_git_tag(): the output of "git describe --tags --exact-match",
\* stripped, if the command succeeded, else None.
get_git_tag(describe) ==
    IF describe.returncode = 0 THEN Tag(StripWs(describe.stdout)) ELSE NoTag

\* Faulty variant: every working tree counts as clean.
is_working_tree_clean_Always(porcelain) == TRUE

\* is_working_tree_clean(): "git status --porcelain" printed nothing.
is_working_tree_clean(porcelain) == Len(StripWs(porcelain)) = 0

\* Faulty variant: no tag counts as a mismatch.
TagMismatch_Never(git_tag, version) == FALSE

\* git_tag != version and f"dataset-{version}" != git_tag
TagMismatch(git_tag, version) ==
    git_tag.name # version /\ <<"d", "a", "t", "a", "s", "e", "t", "-">> \o version # git_tag.name

\* The --version arguments and what git describe prints.
Versions == { <<"v", "1">>, <<"v", "2">> }
Describes ==
    { [returncode |-> 128, stdout |-> <<>>] }
    \cup { [returncode |-> 0, stdout |-> s] :
             s \in { <<"v", "1", "\n">>, <<"d", "a", "t", "a", "s", "e", "t", "-", "v", "1", "\n">>, <<"v", "2", "\n">>, <<"v", "1", ".", "0", "\n">> } }
Porcelains == { <<>>, <<" ", "M", " ", "R", "E", "A", "D", "M", "E", ".", "m", "d", "\n">> }

\* No run of publish.
NoPublish ==
    [pc |-> "idle", version |-> <<>>, dry_run |-> FALSE, force |-> FALSE,
     describe |-> [returncode |-> 128, stdout |-> <<>>], porcelain |-> <<>>,
     hub_installed |-> FALSE, export_ok |-> FALSE, upload_ok |-> FALSE,
     git_tag |-> NoTag, checked |-> {}, exported |-> FALSE, uploads |-> 0,
     exit_code |-> -1]

InitPublishIdle == pub = NoPublish

\* sys.exit(1)
PublishExit == [pub EXCEPT !.pc = "exit", !.exit_code = 1]

\* "Safety checks", the tag: git_tag = get_git_tag() and the if / elif on it.
PublishCheckTag ==
    /\ pub.pc = "tag"
    /\ LET git_tag == get_git_tag(pub.describe)
           seen == [pub EXCEPT !.git_tag = git_tag, !.checked = @ \cup {"tag"}]
       IN  IF ~git_tag.some
           THEN IF ~pub.force
                THEN pub' = [seen EXCEPT !.pc = "exit", !.exit_code = 1]
                ELSE pub' = [seen EXCEPT !.pc = "tree"]
           ELSE IF TagMismatch(git_tag, pub.version)
           THEN pub' = [seen EXCEPT !.pc = "exit", !.exit_code = 1]
           ELSE pub' = [seen EXCEPT !.pc = "tree"]
    /\ UNCHANGED <<cls_vars, data_vars, conv_vars, batch_vars, health>>

\* "Safety checks", the working tree.
PublishCheckTree ==
    /\ pub.pc = "tree"
    /\ LET seen == [pub EXCEPT !.checked = @ \cup {"tree"}]
       IN  IF ~is_working_tree_clean(pub.porcelain) /\ ~pub.force
           THEN pub' = [seen EXCEPT !.pc = "exit", !.exit_code = 1]
           ELSE pub' = [seen EXCEPT !.pc = "import"]
    /\ UNCHANGED <<cls_vars, data_vars, conv_vars, batch_vars, health>>

\* from huggingface_hub import HfApi, or exit 1 on ImportError.
PublishImport ==
    /\ pub.pc = "import"
    /\ pub' = IF pub.hub_installed THEN [pub EXCEPT !.pc = "export"] ELSE PublishExit
    /\ UNCHANGED <<cls_vars, data_vars, conv_vars, batch_vars, health>>

\* The export to the temporary directory; copytree and open raise when
\* data/raw, data/manifests or README.md is missing.
PublishExport ==
    /\ pub.pc = "export"
    /\ pub' = IF pub.export_ok
              THEN [pub EXCEPT !.pc = "upload", !.exported = TRUE]
              ELSE [pub EXCEPT !.pc = "raised", !.exit_code = 1]
    /\ UNCHANGED <<cls_vars, data_vars, conv_vars, batch_vars, health>>

\* if dry_run: ... return
PublishDryRun ==
    /\ pub.pc = "upload"
    /\ pub.dry_run
    /\ pub' = [pub EXCEPT !.pc = "done", !.exit_code = 0]
    /\ UNCHANGED <<cls_vars, data_vars, conv_vars, batch_vars, health>>

\* api.upload_folder(...): called once; its exception is not caught.
PublishUpload ==
    /\ pub.pc = "upload"
    /\ ~pub.dry_run
    /\ pub' = IF pub.upload_ok
              THEN [pub EXCEPT !.pc = "done", !.uploads = @ + 1, !.exit_code = 0]
              ELSE [pub EXCEPT !.pc = "raised", !.uploads = @ + 1, !.exit_code = 1]
    /\ UNCHANGED <<cls_vars, data_vars, conv_vars, batch_vars, health>>

-----------------------------------------------------------------------------
(* The operator's edits between runs, at most MaxChanges of them.          *)

\* A file is created or overwritten in a data directory.
WriteAudio ==
    /\ changes < MaxChanges
    /\ \E n \in AudioPool, b \in FileBytes :
          /\ n \in DOMAIN audio_dir => audio_dir[n] # File(b)
          /\ audio_dir' = [m \in DOMAIN audio_dir \cup {n} |->
                              IF m = n THEN File(b) ELSE audio_dir[m]]
    /\ changes' = changes + 1
    /\ built' = FALSE
    /\ UNCHANGED <<midi_dir, manifest, report, build_out, val_out>>
    /\ UNCHANGED <<cls_vars, tool_vars>>

WriteMidi ==
    /\ changes < MaxChanges
    /\ \E n \in MidiPool, b \in FileBytes :
          /\ n \in DOMAIN midi_dir => midi_dir[n] # File(b)
          /\ midi_dir' = [m \in DOMAIN midi_dir \cup {n} |->
                             IF m = n THEN File(b) ELSE midi_dir[m]]
    /\ changes' = changes + 1
    /\ built' = FALSE
    /\ UNCHANGED <<audio_dir, manifest, report, build_out, val_out>>
    /\ UNCHANGED <<cls_vars, tool_vars>>

\* A file is deleted from a data directory.
RemoveAudio ==
    /\ changes < MaxChanges
    /\ \E n \in DOMAIN audio_dir :
          audio_dir' = [m \in DOMAIN audio_dir \ {n} |-> audio_dir[m]]
    /\ changes' = changes + 1
    /\ built' = FALSE
    /\ UNCHANGED <<midi_dir, manifest, report, build_out, val_out>>
    /\ UNCHANGED <<cls_vars, tool_vars>>

RemoveMidi ==
    /\ changes < MaxChanges
    /\ \E n \in DOMAIN midi_dir :
          midi_dir' = [m \in DOMAIN midi_dir \ {n} |-> midi_dir[m]]
    /\ changes' = changes + 1
    /\ built' = FALSE
    /\ UNCHANGED <<audio_dir, manifest, report, build_out, val_out>>
    /\ UNCHANGED <<cls_vars, tool_vars>>

\* The manifest is edited by hand: a row is copied to the end.
DuplicateRow ==
    /\ changes < MaxChanges
    /\ manifest.exists
    /\ \E i \in 1..Len(manifest.rows) :
          manifest' = [manifest EXCEPT !.rows = Append(@, manifest.rows[i])]
    /\ changes' = changes + 1
    /\ built' = FALSE
    /\ UNCHANGED <<audio_dir, midi_dir, report, build_out, val_out>>
    /\ UNCHANGED <<cls_vars, tool_vars>>

\* The empty data directory.
EmptyDir == [n \in {} |-> File(<<>>)]

\* A data directory holding the files named in S, one byte each.
DirOf(S) == [n \in S |-> File(<<1>>)]

InitFiles ==
    /\ manifest = NoManifest
    /\ report = NoReport
    /\ build_out = [status |-> "none", warnings |-> <<>>,
                    summary |-> NoSummary, exit_code |-> 0]
    /\ val_out = [status |-> "none", exit_code |-> 0]
    /\ changes = 0
    /\ built = FALSE

\* No other tool of the toolkit has run.
InitTools == InitConvertIdle /\ InitBatchIdle /\ InitHealthIdle /\ InitPublishIdle

InitCls ==
    /\ filename = <<>>
    /\ song_name = Unset
    /\ emotion = Unset
    /\ row_notes = Unset

Init ==
    /\ InitCls
    /\ InitFiles
    /\ InitTools
    /\ \E S \in SUBSET AudioPool : audio_dir = DirOf(S)
    /\ \E S \in SUBSET MidiPool : midi_dir = DirOf(S)

Next ==
    \/ Build
    \/ Validate
    \/ WriteAudio
    \/ WriteMidi
    \/ RemoveAudio
    \/ RemoveMidi
    \/ DuplicateRow

Spec == Init /\ [][Next]_vars

-----------------------------------------------------------------------------
(* Build and validation with files that cannot be read: next to the edits  *)
(* of Spec, the operator may take the read permission of a file away, so   *)
(* that the file still exists and open(filepath, "rb") raises.             *)

\* dir with the file named n made unreadable.
Unreadable(dir, n) ==
    [m \in DOMAIN dir |-> IF m = n THEN [dir[m] EXCEPT !.readable = FALSE] ELSE dir[m]]

RevokeRead ==
    /\ changes < MaxChanges
    /\ \/ \E n \in DOMAIN audio_dir :
             /\ audio_dir[n].readable
             /\ audio_dir' = Unreadable(audio_dir, n)
             /\ UNCHANGED midi_dir
       \/ \E n \in DOMAIN midi_dir :
             /\ midi_dir[n].readable
             /\ midi_dir' = Unreadable(midi_dir, n)
             /\ UNCHANGED audio_dir
    /\ changes' = changes + 1
    /\ built' = FALSE
    /\ UNCHANGED <<manifest, report, build_out, val_out>>
    /\ UNCHANGED <<cls_vars, tool_vars>>

NextIO == Next \/ RevokeRead

SpecIO == Init /\ [][NextIO]_vars

-----------------------------------------------------------------------------
(* Classifier harness: the inputs are filenames spelled from a vocabulary  *)
(* of the fragments the classifier's rules look for.                       *)

Words ==
    { <<"A">>, <<"_">>, <<"1">>, <<"0">>, <<"-">>,
      <<"0", "0", "1", "2", "-">>,
      <<"_">> \o Angry, <<"_">> \o Happy, <<"_">> \o Sad, <<"_">> \o Tender,
      <<"_">> \o Original,
      <<"_", "t", "o", "r", "r">>, CleanedMark,
      <<".", "m", "i", "d">> }

RECURSIVE Concat(_)
Concat(ws) == IF ws = <<>> THEN <<>> ELSE Head(ws) \o Concat(Tail(ws))

Filenames ==
    { Concat(ws) \o ext :
        ws \in UNION { [1..n -> Words] : n \in 0..MaxWords },
        ext \in {WavExt, MidExt} }

InitClassify ==
    /\ filename \in Filenames
    /\ song_name = Unset
    /\ emotion = Unset
    /\ row_notes = Unset
    /\ InitFiles
    /\ InitTools
    /\ audio_dir = EmptyDir
    /\ midi_dir = EmptyDir

ExtractSongName ==
    /\ song_name = Unset
    /\ song_name' = extract_song_name(filename)
    /\ UNCHANGED <<filename, emotion, row_notes>>
    /\ UNCHANGED <<data_vars, tool_vars>>

ExtractEmotion ==
    /\ emotion = Unset
    /\ emotion' = extract_emotion(filename)
    /\ UNCHANGED <<filename, song_name, row_notes>>
    /\ UNCHANGED <<data_vars, tool_vars>>

\* "Determine notes", for an audio file whose song name has been extracted.
DetermineNotes ==
    /\ EndsWith(filename, WavExt)
    /\ song_name # Unset
    /\ row_notes = Unset
    /\ row_notes' = RowNotes(song_name, filename)
    /\ UNCHANGED <<filename, song_name, emotion>>
    /\ UNCHANGED <<data_vars, tool_vars>>

NextClassify == ExtractSongName \/ ExtractEmotion \/ DetermineNotes

SpecClassify == InitClassify /\ [][NextClassify]_vars

-----------------------------------------------------------------------------
(* Conversion harness: csv_to_midi is called once on a CSV note file.      *)

InitConvert ==
    /\ InitCls
    /\ InitFiles
    /\ audio_dir = EmptyDir
    /\ midi_dir = EmptyDir
    /\ input_csv \in CsvInputs
    /\ output_midi \in {NoMidi, OldMidi}
    /\ velocity \in {100, 64}
    /\ result = NotCalled
    /\ InitBatchIdle
    /\ InitHealthIdle
    /\ InitPublishIdle

\* The call csv_to_midi(input_csv, output_midi, velocity).
ConvertFile ==
    /\ result.status = "none"
    /\ LET run == csv_to_midi(input_csv, output_midi, velocity)
       IN  /\ output_midi' = run.file
           /\ result' = [status |-> IF run.raised = "none" THEN "returned" ELSE "raised",
                         raised |-> run.raised, note_count |-> run.note_count]
    /\ UNCHANGED <<input_csv, velocity>>
    /\ UNCHANGED <<cls_vars, data_vars, batch_vars, health, pub>>

NextConvert == ConvertFile

SpecConvert == InitConvert /\ [][NextConvert]_vars

-----------------------------------------------------------------------------
(* Batch harness: csv_to_midi.py is run once from the command line on an   *)
(* input tree, with outputs of earlier runs lying in the output tree.      *)

InitBatch ==
    /\ InitCls
    /\ InitFiles
    /\ audio_dir = EmptyDir
    /\ midi_dir = EmptyDir
    /\ InitConvertIdle
    /\ \E S \in SUBSET CsvPaths :
          \/ /\ S = {}
             /\ csv_root = [exists |-> FALSE, files |-> NoTree]
          \/ \E B \in SUBSET (S \cap MayBeBad) :
                csv_root = [exists |-> TRUE,
                            files |-> [p \in S |-> IF p \in B THEN BadCsv ELSE GoodCsv]]
    /\ \E M \in SUBSET MidiPaths : midi_root = [p \in M |-> OldMidi]
    /\ cli = NoRun
    /\ InitHealthIdle
    /\ InitPublishIdle

NextBatch ==
    \/ MainAlternatives
    \/ MainNoInput
    \/ MainSingle
    \/ MainDirectory
    \/ MainNotFound

SpecBatch == InitBatch /\ [][NextBatch]_vars

-----------------------------------------------------------------------------
(* Health check harness: one of the two checkers is run once on a file, on *)
(* a directory of at most two files, or on a path that does not exist.     *)

\* The paths a checker may be given, for a pool of files: a file, a
\* directory with its files in sorted order, nothing.
HealthPaths(pool) ==
    { [kind |-> "file", files |-> <<f>>] : f \in pool }
    \cup { [kind |-> "dir", files |-> fs] : fs \in UNION { [1..n -> pool] : n \in 0..2 } }
    \cup { [kind |-> "missing", files |-> <<>>] }

InitHealth ==
    /\ InitCls
    /\ InitFiles
    /\ audio_dir = EmptyDir
    /\ midi_dir = EmptyDir
    /\ InitConvertIdle
    /\ InitBatchIdle
    /\ InitPublishIdle
    /\ \E strict \in BOOLEAN :
          \/ \E p \in HealthPaths(MidiInputs) :
                health = [NoCheck EXCEPT !.tool = "midi", !.kind = p.kind,
                                         !.files = p.files, !.strict = strict]
          \/ \E p \in HealthPaths(AudioInputs) :
                health = [NoCheck EXCEPT !.tool = "audio", !.kind = p.kind,
                                         !.files = p.files, !.strict = strict]

NextHealth == MidiMain \/ AudioMain

SpecHealth == InitHealth /\ [][NextHealth]_vars

-----------------------------------------------------------------------------
(* Publish harness: one run of publish_to_huggingface.py, for every        *)
(* combination of arguments and environment.                               *)

InitPublish ==
    /\ InitCls
    /\ InitFiles
    /\ audio_dir = EmptyDir
    /\ midi_dir = EmptyDir
    /\ InitConvertIdle
    /\ InitBatchIdle
    /\ InitHealthIdle
    /\ \E version \in Versions, describe \in Describes, porcelain \in Porcelains,
          dry_run \in BOOLEAN, force \in BOOLEAN, hub_installed \in BOOLEAN,
          export_ok \in BOOLEAN, upload_ok \in BOOLEAN :
          pub = [NoPublish EXCEPT
                   !.pc = "tag", !.version = version, !.dry_run = dry_run,
                   !.force = force, !.describe = describe, !.porcelain = porcelain,
                   !.hub_installed = hub_installed, !.export_ok = export_ok,
                   !.upload_ok = upload_ok]

NextPublish ==
    \/ PublishCheckTag
    \/ PublishCheckTree
    \/ PublishImport
    \/ PublishExport
    \/ PublishDryRun
    \/ PublishUpload

SpecPublish == InitPublish /\ [][NextPublish]_vars

-----------------------------------------------------------------------------
(* Claims about the filename classifier (checked under SpecClassify).      *)
(* The claims' vocabulary is defined here independently of the model of    *)
(* the code: the stem is the harness filename without its four-character   *)
(* extension.                                                              *)

GivenStem == SubSeq(filename, 1, Len(filename) - 4)

\* 4 or 5 leading digits, then a hyphen.
HasArchivalPrefix(s) ==
    \E n \in {4, 5} :
        /\ Len(s) > n
        /\ \A i \in 1..n : s[i] \in Digits
        /\ s[n + 1] = "-"

\* s without its last n characters.
DropLast(s, n) == SubSeq(s, 1, Len(s) - n)

\* The first underscore-delimited token of s.
FirstToken(s) ==
    CHOOSE p \in { SubSeq(s, 1, n) : n \in 0..Len(s) } :
        /\ \A i \in 1..Len(p) : p[i] # "_"
        /\ (Len(p) = Len(s) \/ s[Len(p) + 1] = "_")

HasProcessedMark(s) == Contains(s, TorrMark) \/ Contains(s, CleanedMark)

\* The emotions of the closed enumeration, in list order.
SimpleEmotions == <<Angry, Happy, Sad, Tender, Original>>

\* s contains _<e'> for an emotion e' listed before position k.
HasEarlierEmotion(s, k) ==
    \E j \in 1..(k - 1) : Contains(s, <<"_">> \o SimpleEmotions[j])

\* C1: for every filename whose stem has the archival prefix, the song name
\* is the stem unmodified and the emotion is None, whatever else it contains.
C1_ArchivalVerbatim ==
    HasArchivalPrefix(GivenStem) =>
        /\ (song_name # Unset => song_name = GivenStem)
        /\ (emotion # Unset => emotion = None)

\* C1 witness: an archival stem that embeds an emotion token or a processed
\* mark has been classified.
C1_Witness ==
    /\ HasArchivalPrefix(GivenStem)
    /\ Contains(GivenStem, <<"_">> \o Happy)
    /\ HasProcessedMark(GivenStem)
    /\ song_name = GivenStem
    /\ emotion = None

\* The precondition of C2 for list position k: the stem is <Title>_<emotion>
\* and <Title> has no _torr_, no _cleaned and no archival prefix.
C2_Case(k) ==
    /\ EndsWith(GivenStem, <<"_">> \o SimpleEmotions[k])
    /\ ~HasProcessedMark(DropLast(GivenStem, Len(SimpleEmotions[k]) + 1))
    /\ ~HasArchivalPrefix(DropLast(GivenStem, Len(SimpleEmotions[k]) + 1))

\* C2 as stated: under C2_Case the song name is <Title> and the emotion is
\* <emotion>.
C2_AsStated ==
    \A k \in 1..Len(SimpleEmotions) :
        C2_Case(k) =>
            /\ (song_name # Unset =>
                    song_name = DropLast(GivenStem, Len(SimpleEmotions[k]) + 1))
            /\ (emotion # Unset => emotion = SimpleEmotions[k])

\* C2 amended: under C2_Case the song name is <Title> exactly when <Title>
\* does not end with _torr, and the emotion is <emotion> exactly when <Title>
\* contains no _<e'> for an emotion e' listed before <emotion>.
C2_Amended ==
    \A k \in 1..Len(SimpleEmotions) :
        LET title == DropLast(GivenStem, Len(SimpleEmotions[k]) + 1)
        IN  C2_Case(k) =>
            /\ (song_name # Unset =>
                    (song_name = title <=> ~EndsWith(title, <<"_", "t", "o", "r", "r">>)))
            /\ (emotion # Unset =>
                    (emotion = SimpleEmotions[k] <=> ~HasEarlierEmotion(title, k)))

\* C2 witness: a title that itself holds a later-listed emotion token has
\* been classified by both functions with the suffix emotion.
C2_Witness ==
    /\ C2_Case(1)
    /\ Contains(DropLast(GivenStem, Len(Angry) + 1), <<"_">> \o Happy)
    /\ song_name = DropLast(GivenStem, Len(Angry) + 1)
    /\ Len(song_name) > Len(Happy) + 1
    /\ emotion = Angry

\* The precondition of C3: a non-archival stem ending with _original1.
C3_Case ==
    /\ ~HasArchivalPrefix(GivenStem)
    /\ EndsWith(GivenStem, <<"_">> \o Original1)

\* C3 as stated: under C3_Case the emotion is original and the song name is
\* the stem without _original1.
C3_AsStated ==
    C3_Case =>
        /\ (emotion # Unset => emotion = Original)
        /\ (song_name # Unset => song_name = DropLast(GivenStem, Len(Original1) + 1))

\* C3 amended: under C3_Case the emotion is never original1; it is original
\* exactly when the stem contains none of _angry, _happy, _sad, _tender; and
\* the song name is the stem without _original1 exactly when the stem
\* contains neither _torr_ nor _cleaned.
C3_Amended ==
    C3_Case =>
        /\ emotion # Original1
        /\ (emotion # Unset =>
                (emotion = Original <=> ~HasEarlierEmotion(GivenStem, 5)))
        /\ (song_name # Unset =>
                (song_name = DropLast(GivenStem, Len(Original1) + 1)
                    <=> ~HasProcessedMark(GivenStem)))

\* C3 witness: a stem <Title>_original1 with a non-empty title has been
\* classified as original with the suffix removed.
C3_Witness ==
    /\ C3_Case
    /\ Len(GivenStem) > Len(Original1) + 1
    /\ emotion = Original
    /\ song_name = DropLast(GivenStem, Len(Original1) + 1)

\* C4: a non-archival stem containing _torr_ or _cleaned gets the first
\* underscore-delimited token as song name, also when it ends with an
\* emotion suffix; an archival stem gets the whole stem.
C4_StrictPrecedence ==
    song_name # Unset =>
        /\ (~HasArchivalPrefix(GivenStem) /\ HasProcessedMark(GivenStem)
                => song_name = FirstToken(GivenStem))
        /\ (HasArchivalPrefix(GivenStem) => song_name = GivenStem)

\* C4 witness: a processed stem that also ends with an emotion suffix has
\* been given its first token, which differs from the suffix-stripped stem.
C4_Witness ==
    /\ ~HasArchivalPrefix(GivenStem)
    /\ HasProcessedMark(GivenStem)
    /\ EndsWith(GivenStem, <<"_">> \o Happy)
    /\ song_name = <<"A">>
    /\ song_name # DropLast(GivenStem, Len(Happy) + 1)

-----------------------------------------------------------------------------
(* Claims about the manifest build and the validation (checked under       *)
(* Spec).  The claims' terms are defined here from the directories and the *)
(* manifest, independently of the model of the two programs.               *)

\* The .wav files of the audio directory adir.
WavFiles(adir) == { n \in DOMAIN adir : Len(n) >= 4 /\ SubSeq(n, Len(n) - 3, Len(n)) = WavExt }

\* The name of the same-stem .mid file of a .wav file name.
Counterpart(n) == DropLast(n, 4) \o MidExt

\* The .wav files of adir that have a same-stem .mid file in mdir.
PairedFiles(adir, mdir) == { n \in WavFiles(adir) : Counterpart(n) \in DOMAIN mdir }

\* The (relpath, stored digest) references that the rows hold.
References(rows) ==
    { <<rows[i].audio_relpath, rows[i].audio_sha256>> : i \in 1..Len(rows) }
        \cup { <<rows[i].midi_relpath, rows[i].midi_sha256>> : i \in 1..Len(rows) }

\* The relpaths under which the files of the two directories are found.
PathsOnDisk(adir, mdir) ==
    { AudioPrefix \o n : n \in DOMAIN adir } \cup { MidiPrefix \o n : n \in DOMAIN mdir }

\* The digest of the file found under relpath p.
DigestOnDisk(adir, mdir, p) ==
    IF \E n \in DOMAIN adir : p = AudioPrefix \o n
    THEN sha256_file(adir[CHOOSE n \in DOMAIN adir : p = AudioPrefix \o n])
    ELSE sha256_file(mdir[CHOOSE n \in DOMAIN mdir : p = MidiPrefix \o n])

\* What C5 says of the manifest man and the output out of a build that ran
\* on the directories adir and mdir.
C5_Post(adir, mdir, man, out) ==
    /\ out.status = "completed"
    /\ man.exists
    /\ Len(man.rows) = Cardinality(PairedFiles(adir, mdir))
    /\ \A n \in PairedFiles(adir, mdir) :
          \E i \in 1..Len(man.rows) :
              /\ man.rows[i].audio_relpath = AudioPrefix \o n
              /\ man.rows[i].midi_relpath = MidiPrefix \o Counterpart(n)
    /\ Len(out.warnings) = Cardinality(WavFiles(adir) \ PairedFiles(adir, mdir))
    /\ Range(out.warnings) = WavFiles(adir) \ PairedFiles(adir, mdir)

\* C5: a build emits exactly one row for each .wav file with a same-stem
\* .mid file, the row naming exactly that pair, and for each .wav file
\* without one a warning and no row, and it completes.
C5_OneRowPerPair ==
    [][Build => C5_Post(audio_dir, midi_dir, manifest', build_out')]_vars

\* C5 witness: a build has completed with a row for a pair and a warning
\* for an audio file without counterpart.
C5_Witness ==
    /\ build_out.status = "completed"
    /\ changes = 0
    /\ manifest.exists
    /\ Len(manifest.rows) >= 1
    /\ Len(build_out.warnings) >= 1
    /\ \E i \in 1..Len(manifest.rows) :
          manifest.rows[i].audio_relpath
              = AudioPrefix \o <<"S", "o", "l", "m", "o", "y", "_", "s", "a", "d", ".", "w", "a", "v">>

\* What C6 says of a manifest.
C6_Post(man) ==
    /\ \A i, j \in 1..Len(man.rows) : i # j => man.rows[i].id # man.rows[j].id
    /\ \A i \in 1..Len(man.rows) :
          man.rows[i].id = sha256_string(man.rows[i].audio_relpath \o <<":">>
                                            \o man.rows[i].midi_relpath)

\* C6: in every manifest produced by a build no two rows have the same id,
\* and each id is the digest of "<audio_relpath>:<midi_relpath>".
C6_UniqueIds ==
    [][Build => C6_Post(manifest')]_vars

\* C6 witness: a build has produced a manifest of two rows of the same song.
C6_Witness ==
    /\ build_out.status = "completed"
    /\ changes = 0
    /\ manifest.exists
    /\ \E i, j \in 1..Len(manifest.rows) :
          i # j /\ manifest.rows[i].song_name = manifest.rows[j].song_name

\* The checksum-mismatch entries that C7 calls for.
ExpectedMismatches(adir, mdir, rows) ==
    { [file |-> ref[1], expected |-> ref[2], actual |-> DigestOnDisk(adir, mdir, ref[1])] :
        ref \in { r \in References(rows) :
                    /\ r[1] \in PathsOnDisk(adir, mdir)
                    /\ DigestOnDisk(adir, mdir, r[1]) # r[2] } }

\* C7: a validation lists a referenced file in checksum_mismatches exactly
\* when the digest of the file on disk differs from the digest stored in
\* the row, with the relpath, the stored digest as expected and the
\* recomputed digest as actual.
C7_MismatchIffDiffers ==
    [][Validate /\ val_out'.status = "completed" =>
          Range(report'.checksum_mismatches)
              = ExpectedMismatches(audio_dir, midi_dir, manifest.rows)]_vars

\* C7 witness: a validation has reported one mismatch for a manifest whose
\* other referenced file still matches.
C7_Witness ==
    /\ val_out.status = "completed"
    /\ report.exists
    /\ report.total_pairs = 1
    /\ Len(report.checksum_mismatches) = 1
    /\ report.missing_files = <<>>
    /\ report.checksum_mismatches[1].expected # report.checksum_mismatches[1].actual

\* C8: a validation lists a referenced relpath in missing_files exactly when
\* no file exists under it, and a missing file gets no checksum-mismatch
\* entry.
C8_MissingIffAbsent ==
    [][Validate /\ val_out'.status = "completed" =>
          /\ Range(report'.missing_files)
                = { ref[1] : ref \in References(manifest.rows) }
                      \ PathsOnDisk(audio_dir, midi_dir)
          /\ \A k \in 1..Len(report'.checksum_mismatches) :
                report'.checksum_mismatches[k].file \in PathsOnDisk(audio_dir, midi_dir)]_vars

\* C8 witness: a validation has reported a missing file next to a checksum
\* mismatch of another file.
C8_Witness ==
    /\ val_out.status = "completed"
    /\ report.exists
    /\ Len(report.missing_files) = 1
    /\ Len(report.checksum_mismatches) = 1
    /\ report.checksum_mismatches[1].file # report.missing_files[1]

\* C9: the status of a validation report is "fail" exactly when one of
\* missing_files, checksum_mismatches and duplicate_ids is non-empty and
\* "pass" otherwise, and the exit code of the run that wrote it is 1 exactly
\* when the status is "fail".
C9_StatusIffViolation ==
    /\ report.exists =>
          /\ report.status \in {Pass, Fail}
          /\ report.status = Fail <=>
                \/ report.missing_files # <<>>
                \/ report.checksum_mismatches # <<>>
                \/ report.duplicate_ids # <<>>
    /\ val_out.status = "completed" =>
          /\ report.exists
          /\ val_out.exit_code \in {0, 1}
          /\ val_out.exit_code = 1 <=> report.status = Fail

\* C9 witness: a validation has failed on a duplicate id alone.
C9_Witness ==
    /\ val_out.status = "completed"
    /\ val_out.exit_code = 1
    /\ report.status = Fail
    /\ report.duplicate_ids # <<>>
    /\ report.missing_files = <<>>
    /\ report.checksum_mismatches = <<>>

\* C10: a validation run leaves the manifest and every audio and MIDI file
\* as they were, whatever its outcome.
C10_ValidatorReadsOnly ==
    [][Validate =>
          /\ manifest' = manifest
          /\ audio_dir' = audio_dir
          /\ midi_dir' = midi_dir]_vars

\* C10 witness: a validation that hashed files has ended in failure.
C10_Witness ==
    /\ val_out.status = "completed"
    /\ report.status = Fail
    /\ report.checksum_mismatches # <<>>
    /\ manifest.exists
    /\ manifest.rows # <<>>

\* The files of the two data directories.
FilesOnDisk == { audio_dir[n] : n \in DOMAIN audio_dir } \cup { midi_dir[n] : n \in DOMAIN midi_dir }

\* C11: a validation run that follows a completed build, with no file and
\* no manifest row edited in between, writes a report with status "pass" and
\* empty missing_files, checksum_mismatches and duplicate_ids, and exits with
\* code 0; the builder's and the validator's sha256_file give the same
\* digest for every file on disk.
C11_ValidateAfterBuild ==
    [][Validate /\ built =>
          /\ val_out'.status = "completed"
          /\ val_out'.exit_code = 0
          /\ report'.exists
          /\ report'.status = Pass
          /\ report'.missing_files = <<>>
          /\ report'.checksum_mismatches = <<>>
          /\ report'.duplicate_ids = <<>>
          /\ \A f \in FilesOnDisk : sha256_file(f) = validate_sha256_file(f)]_vars

\* A validation has passed right after a build of two pairs, one of them
\* rewritten with other contents before the build.
C11_Witness ==
    /\ built
    /\ changes >= 1
    /\ val_out.status = "completed"
    /\ val_out.exit_code = 0
    /\ report.status = Pass
    /\ report.total_pairs = 2
    /\ \E i \in 1..Len(manifest.rows) : manifest.rows[i].audio_sha256 = HexDigest(<<>>)
    /\ \E i \in 1..Len(manifest.rows) : manifest.rows[i].audio_sha256 = HexDigest(<<1>>)

-----------------------------------------------------------------------------
(* Claims about csv_to_midi (checked under SpecConvert).  The number a     *)
(* cell stands for is tabulated here, in hundredths, independently of the  *)
(* model's float().                                                        *)

PitchOfCell(c) ==
    CASE c = <<"6", "0", ".", "2", "5">> -> 6025
      [] c = <<"6", "0", ".", "7", "5">> -> 6075
      [] c = <<"-", "5", ".", "0">> -> 0 - 500
      [] c = <<"1", "5", "0", ".", "0">> -> 15000
      [] c = <<"6", "4", ".", "5">> -> 6450
      [] c = <<"6", "5", ".", "5">> -> 6550
      [] c = <<"6", "4">> -> 6400
      [] c = <<"1", "2", "7", ".", "4">> -> 12740
      [] c = <<"0", ".", "5">> -> 50
      [] c = <<"1", "2", "6", ".", "5">> -> 12650

TimeOfCell(c) ==
    CASE c = <<"0", ".", "0">> -> 0
      [] c = <<"0", ".", "5">> -> 50
      [] c = <<"1", ".", "2", "5">> -> 125
      [] c = <<"2">> -> 200

\* n is an integer nearest to the number h (given in hundredths).
IsNearest(n, h) == 100 * n - h <= 50 /\ h - 100 * n <= 50

\* p is the pitch that rounding the number h to n and clamping n gives.
IsRoundedAndClamped(p, h) ==
    \E n \in -6..151 :
        /\ IsNearest(n, h)
        /\ p = IF n < 0 THEN 0 ELSE IF n > 127 THEN 127 ELSE n

\* The conversion has returned.
Returned == result.status = "returned"

\* C12: every emitted pitch is the row's onpitch rounded to the nearest
\* integer and clamped into 0..127 (60.25 gives 60, 60.75 gives 61, -5.0
\* gives 0, 150.0 gives 127), and no emitted pitch lies outside 0..127.
C12_RoundThenClamp ==
    Returned =>
        \A i \in 1..Len(output_midi.notes) :
            LET p == output_midi.notes[i].pitch
                c == input_csv.rows[i].onpitch
            IN  /\ p \in 0..127
                /\ IsRoundedAndClamped(p, PitchOfCell(c))
                /\ c = <<"6", "0", ".", "2", "5">> => p = 60
                /\ c = <<"6", "0", ".", "7", "5">> => p = 61
                /\ c = <<"-", "5", ".", "0">> => p = 0
                /\ c = <<"1", "5", "0", ".", "0">> => p = 127

\* 60.75 has been emitted as 61 and 150.0 as 127.
C12_Witness ==
    /\ Returned
    /\ Len(output_midi.notes) = 2
    /\ input_csv.rows[1].onpitch = <<"6", "0", ".", "7", "5">>
    /\ output_midi.notes[1].pitch = 61
    /\ input_csv.rows[2].onpitch = <<"1", "5", "0", ".", "0">>
    /\ output_midi.notes[2].pitch = 127

\* C13: for a CSV with the three required columns the call returns the
\* number of data rows and writes that many notes, the i-th note being the
\* one of the i-th row; zero data rows give a file with zero notes and the
\* return value 0.
C13_OneNotePerRowInOrder ==
    (result.status # "none" /\ RequiredColumns \subseteq input_csv.fieldnames) =>
        /\ Returned
        /\ result.note_count = Len(input_csv.rows)
        /\ output_midi.exists
        /\ Len(output_midi.notes) = Len(input_csv.rows)
        /\ \A i \in 1..Len(input_csv.rows) :
              /\ output_midi.notes[i].start = TimeOfCell(input_csv.rows[i].onset)
              /\ output_midi.notes[i].end = TimeOfCell(input_csv.rows[i].offset)
              /\ IsRoundedAndClamped(output_midi.notes[i].pitch,
                                     PitchOfCell(input_csv.rows[i].onpitch))

\* Two rows given with the later onset first have come out in that order.
C13_Witness ==
    /\ Returned
    /\ result.note_count = 2
    /\ Len(output_midi.notes) = 2
    /\ output_midi.notes[1].start = 125
    /\ output_midi.notes[2].start = 0
    /\ input_csv.rows[1].onpitch = <<"6", "0", ".", "2", "5">>
    /\ output_midi.notes[1].pitch = 60
    /\ input_csv.rows[2].onpitch = <<"-", "5", ".", "0">>
    /\ output_midi.notes[2].pitch = 0

\* C14: for a CSV lacking one of the required columns, whatever its number
\* of data rows, the call raises KeyError and leaves the output path as it
\* was.
C14_MissingColumnRaises ==
    [][(ConvertFile /\ ~(RequiredColumns \subseteq input_csv.fieldnames)) =>
          /\ result'.status = "raised"
          /\ result'.raised = "KeyError"
          /\ output_midi' = output_midi]_vars

-----------------------------------------------------------------------------
(* Claims about the batch conversions and the exit code of csv_to_midi.py  *)
(* (checked under SpecBatch).  The claims' terms are read off the input    *)
(* and output trees.                                                       *)

\* The name of a .csv file with its last four characters replaced by .mid.
MidName(name) == DropLast(name, 4) \o MidExt

IsCsvName(name) == Len(name) >= 4 /\ SubSeq(name, Len(name) - 3, Len(name)) = CsvExt

\* The .csv files directly at the root of the input tree ...
RootCsvs == { p \in DOMAIN csv_root.files : Len(p) = 1 /\ IsCsvName(p[1]) }

\* ... and those directly inside a first-level directory.
SongCsvs == { p \in DOMAIN csv_root.files : Len(p) = 2 /\ IsCsvName(p[2]) }

\* The files a batch mode is to convert, the output path of each and its
\* key in the results.
Candidates(mode) == IF mode = "directory" THEN RootCsvs ELSE SongCsvs

Target(p) == IF Len(p) = 1 THEN <<MidName(p[1])>> ELSE <<p[1], MidName(p[2])>>

KeyOf(p) == IF Len(p) = 1 THEN p[1] ELSE p[1] \o <<"/">> \o p[2]

Keys(results) == { e.key : e \in results }

\* A step that is a batch conversion run to its end.
BatchStep == (MainDirectory \/ MainAlternatives) /\ cli'.status = "completed"

\* What C15 says of an output left alone: same file, no results entry.
LeftAlone(p) ==
    /\ midi_root'[Target(p)] = midi_root[Target(p)]
    /\ Target(p) \notin cli'.written
    /\ KeyOf(p) \notin Keys(cli'.results)

\* C15 as stated: in a batch run, a CSV whose output exists is left alone
\* without force, and with force its output is written anew.
C15_AsStated ==
    [][BatchStep =>
          \A p \in Candidates(cli'.mode) :
              Target(p) \in DOMAIN midi_root =>
                  IF cli'.force THEN Target(p) \in cli'.written ELSE LeftAlone(p)]_vars

\* C15 amended: with force the conversion is always attempted; the output is
\* written anew when it succeeds, and when it raises the existing output
\* stays as it was and the CSV gets -1.
C15_Amended ==
    [][BatchStep =>
          \A p \in Candidates(cli'.mode) :
              Target(p) \in DOMAIN midi_root =>
                  IF ~cli'.force THEN LeftAlone(p)
                  ELSE \E e \in cli'.results :
                          /\ e.key = KeyOf(p)
                          /\ \A d \in cli'.results : d.key = e.key => d = e
                          /\ e.count >= 0 =>
                                /\ Target(p) \in cli'.written
                                /\ Len(midi_root'[Target(p)].notes) = e.count
                                /\ e.count = Len(csv_root.files[p].rows)
                          /\ e.count < 0 =>
                                /\ e.count = 0 - 1
                                /\ Target(p) \notin cli'.written
                                /\ midi_root'[Target(p)] = midi_root[Target(p)]]_vars

\* A forced alternatives run has replaced one existing output and has left
\* another, whose CSV failed to convert, as it was.
C15_Witness ==
    /\ cli.mode = "alternatives"
    /\ cli.status = "completed"
    /\ cli.force
    /\ <<<<"S">>, <<"a", ".", "m", "i", "d">>>> \in DOMAIN midi_root
    /\ midi_root[<<<<"S">>, <<"a", ".", "m", "i", "d">>>>] = OldMidi
    /\ [key |-> <<"S", "/", "a", ".", "c", "s", "v">>, count |-> 0 - 1] \in cli.results
    /\ <<<<"S">>, <<"b", ".", "m", "i", "d">>>> \in cli.written
    /\ midi_root[<<<<"S">>, <<"b", ".", "m", "i", "d">>>>] # OldMidi

\* C16: an alternatives run takes up exactly the .csv files directly inside
\* a first-level directory (those not skipped for an existing output),
\* writes <song>/<version>.mid for each that converts and nothing else; files
\* at the root or deeper get no results entry and no output, and a missing
\* root gives empty results.
C16_FirstLevelOnly ==
    [][(MainAlternatives /\ cli'.status = "completed") =>
          /\ Keys(cli'.results)
                = { KeyOf(p) : p \in { q \in SongCsvs :
                                         ~(Target(q) \in DOMAIN midi_root /\ ~cli'.force) } }
          /\ cli'.written
                = { Target(p) : p \in { q \in SongCsvs :
                                          \E e \in cli'.results :
                                              e.key = KeyOf(q) /\ e.count >= 0 } }
          /\ \A t \in cli'.written : t \in DOMAIN midi_root' /\ midi_root'[t].exists
          /\ \A t \in DOMAIN midi_root' :
                t \notin cli'.written => t \in DOMAIN midi_root /\ midi_root'[t] = midi_root[t]
          /\ ~csv_root.exists => cli'.results = {}]_vars

\* An alternatives run over a tree with files at the root, in a song
\* directory and a level deeper has converted the one in the song directory
\* only.
C16_Witness ==
    /\ cli.mode = "alternatives"
    /\ cli.status = "completed"
    /\ <<<<"r", ".", "c", "s", "v">>>> \in DOMAIN csv_root.files
    /\ <<<<"S">>, <<"N">>, <<"c", ".", "c", "s", "v">>>> \in DOMAIN csv_root.files
    /\ Keys(cli.results) = { <<"S", "/", "b", ".", "c", "s", "v">> }
    /\ cli.written = { <<<<"S">>, <<"b", ".", "m", "i", "d">>>> }
    /\ DOMAIN midi_root = { <<<<"S">>, <<"b", ".", "m", "i", "d">>>> }

\* A run in which something failed: it ended in an error message or an
\* exception, or a conversion of the batch failed.
RunFailed ==
    \/ cli.status \in {"usage", "raised"}
    \/ \E e \in cli.results : e.count < 0

\* C19 (for csv_to_midi.py): the exit code is 0 only when the run passed and
\* non-zero whenever it failed.
C19_ExitCodeSignalsFailure ==
    cli.status # "none" => (cli.exit_code = 0 <=> ~RunFailed)

-----------------------------------------------------------------------------
(* Claims about the health checkers (checked under SpecHealth).  What is   *)
(* critical about a file is read off the file given to the checker.        *)

\* The file has a note: a note_on message with a velocity above 0.
HasNote(file) ==
    \E i \in 1..Len(file.msgs) : file.msgs[i].type = "note_on" /\ file.msgs[i].velocity > 0

\* The critical issues: the file does not load, (MIDI) it has no note,
\* (audio) it is completely silent.
Critical(tool, file) ==
    \/ ~file.loadable
    \/ tool = "midi" /\ ~HasNote(file)
    \/ tool = "audio" /\ file.peak < 10

\* A checker has been run on one file or more.
Checked == health.status # "none" /\ health.files # <<>>

\* C17: for both checkers, each file checked gets a report whose valid is
\* false exactly when the file has a critical issue, whatever other issues
\* it has, and a report with valid false lists an issue.
C17_InvalidIffCritical ==
    Checked =>
        /\ Len(health.results) = Len(health.files)
        /\ \A i \in 1..Len(health.files) :
              /\ health.results[i].valid = ~Critical(health.tool, health.files[i])
              /\ ~health.results[i].valid => health.results[i].issues # <<>>

\* C17 for the MIDI checker alone.
C17_MidiInvalidIffCritical == health.tool = "midi" => C17_InvalidIffCritical

\* C18: for both checkers, the batch report's status is "fail" exactly when
\* a file is invalid, and in strict mode exactly when a file has an issue.
C18_BatchStatus ==
    Checked =>
        /\ health.report.exists
        /\ Len(health.results) = Len(health.files)
        /\ health.report.status \in {Pass, Fail}
        /\ health.report.status = Fail
              <=> IF health.strict
                  THEN \E i \in 1..Len(health.results) : health.results[i].issues # <<>>
                  ELSE \E i \in 1..Len(health.results) : ~health.results[i].valid

\* C18 for the MIDI checker alone.
C18_MidiBatchStatus == health.tool = "midi" => C18_BatchStatus

-----------------------------------------------------------------------------
(* Claims about publish (checked under SpecPublish).                       *)

\* HEAD is at an exact tag; the working tree has no uncommitted changes.
AtExactTag == pub.describe.returncode = 0
TreeClean == \A i \in 1..Len(pub.porcelain) : pub.porcelain[i] \in {" ", "\n"}

\* C20: the upload is invoked only after both precondition checks have
\* run, in no run with dry_run set, in no run without force where HEAD is
\* not at an exact tag or the working tree has uncommitted changes, and at
\* most once in a run.
C20_UploadGated ==
    /\ pub.uploads <= 1
    /\ pub.uploads > 0 =>
          /\ {"tag", "tree"} \subseteq pub.checked
          /\ ~pub.dry_run
          /\ pub.force \/ (AtExactTag /\ TreeClean)

\* An upload made without force, after both checks passed.
C20_Witness == pub.uploads = 1 /\ ~pub.force /\ pub.pc = "done"

\* A forced upload from an untagged, dirty tree failed and was not repeated.
C20_ForcedOnce ==
    /\ pub.uploads = 1 /\ pub.force /\ pub.pc = "raised"
    /\ ~AtExactTag /\ ~TreeClean

\* The tag git describe printed, without the newline that ends the line.
HeadTag == SubSeq(pub.describe.stdout, 1, Len(pub.describe.stdout) - 1)

\* HEAD is at a tag that names another version than the requested one.
OtherTag ==
    /\ AtExactTag
    /\ HeadTag # pub.version
    /\ HeadTag # <<"d", "a", "t", "a", "s", "e", "t", "-">> \o pub.version

\* The run of publish has ended.
PublishEnded == pub.pc \in {"exit", "raised", "done"}

\* A forced run that is no dry run, with huggingface_hub installed and an
\* export that succeeds, has ended.
ForcedRunEnded ==
    PublishEnded /\ pub.force /\ ~pub.dry_run /\ pub.hub_installed /\ pub.export_ok

\* C21 as stated: with force set and dry_run unset, publish reaches the
\* upload step for every tag state of HEAD (no tag, the requested version,
\* another version) and every state of the working tree.
C21_AsStated == ForcedRunEnded => pub.uploads = 1

\* C21, amended: with force set and dry_run unset, publish reaches the
\* upload step when HEAD has no tag or the tag of the requested version,
\* whatever the state of the working tree; at a tag of another version it
\* exits with code 1 without uploading.
C21_ForceOverridesWarnings ==
    ForcedRunEnded =>
        IF OtherTag
        THEN pub.uploads = 0 /\ pub.pc = "exit" /\ pub.exit_code = 1
        ELSE pub.uploads = 1

\* A forced run from an untagged, dirty tree has uploaded.
C21_Witness ==
    /\ ForcedRunEnded /\ pub.uploads = 1 /\ pub.pc = "done"
    /\ ~AtExactTag /\ ~TreeClean

\* A forced run at the tag of another version has ended.
C21_OtherTagCase == ForcedRunEnded /\ OtherTag

-----------------------------------------------------------------------------
(* Claims about the notes of a row (checked under SpecClassify).           *)

\* The notes of the audio file's row have been determined.
NotesDetermined == row_notes # Unset

\* C22: for every audio filename, the notes the builder derives from the
\* extracted song name and the full filename are "archival" iff the stem
\* has the archival prefix, "processed" iff the stem is not archival and
\* contains _torr_ or _cleaned, and empty otherwise.
C22_NotesAgreeWithClassifier ==
    NotesDetermined =>
        /\ row_notes = Archival <=> HasArchivalPrefix(GivenStem)
        /\ row_notes = Processed
              <=> (~HasArchivalPrefix(GivenStem) /\ HasProcessedMark(GivenStem))
        /\ row_notes = <<>>
              <=> (~HasArchivalPrefix(GivenStem) /\ ~HasProcessedMark(GivenStem))

\* An archival stem that also carries a processed mark was tagged archival.
C22_Witness ==
    /\ NotesDetermined
    /\ HasArchivalPrefix(GivenStem)
    /\ HasProcessedMark(GivenStem)
    /\ row_notes = Archival

\* A processed stem whose song name is its first token was tagged processed.
C22_ProcessedCase ==
    /\ NotesDetermined
    /\ row_notes = Processed
    /\ song_name # GivenStem

-----------------------------------------------------------------------------
(* Claims about rebuilding the manifest (checked under Spec).              *)

\* What a row says of its pair: the two paths and the two digests.
PairOfRow(r) == <<r.audio_relpath, r.audio_sha256, r.midi_relpath, r.midi_sha256>>

\* The same for the pair of the audio file n as it is found on disk.
PairOnDisk(adir, mdir, n) ==
    <<AudioPrefix \o n, sha256_file(adir[n]),
      MidiPrefix \o Counterpart(n), sha256_file(mdir[Counterpart(n)])>>

\* The manifest man holds one row for each pair on disk, with the digests
\* of the files as they are, and no other row.
ExactlyThePairs(adir, mdir, man) ==
    /\ man.exists
    /\ Len(man.rows) = Cardinality(PairedFiles(adir, mdir))
    /\ { PairOfRow(man.rows[i]) : i \in 1..Len(man.rows) }
          = { PairOnDisk(adir, mdir, n) : n \in PairedFiles(adir, mdir) }

\* C23: after any sequence of file additions, removals and builds, the
\* manifest a completed build leaves holds exactly the rows of the pairs
\* present at that build, none carried over from the manifest before it,
\* and a build that follows a build with nothing changed in between leaves
\* the manifest identical.
C23_FullRebuild ==
    [][Build /\ build_out'.status = "completed" =>
          /\ ExactlyThePairs(audio_dir, midi_dir, manifest')
          /\ built => manifest' = manifest]_vars

\* A manifest with a repeated row was validated, and the build after it
\* left one row for the one pair.
C23_Witness ==
    /\ built
    /\ report.exists
    /\ report.duplicate_ids # <<>>
    /\ Len(manifest.rows) = 1
    /\ ExactlyThePairs(audio_dir, midi_dir, manifest)

-----------------------------------------------------------------------------
(* Claims about failures of single items of a batch.                       *)

\* C24: when an item of a batch fails, the failure is recorded for that
\* item and every later item is still processed and reported.  For the
\* health checkers (under SpecHealth): every file given gets a report, and
\* the report of a file that cannot be decoded has valid false and an issue.
C24_BatchContinues ==
    Checked =>
        /\ Len(health.results) = Len(health.files)
        /\ \A i \in 1..Len(health.files) :
              ~health.files[i].loadable =>
                  ~health.results[i].valid /\ health.results[i].issues # <<>>

\* C24 for the MIDI checker alone.
C24_MidiBatchContinues == health.tool = "midi" => C24_BatchContinues

\* A MIDI check of two files, the first of which does not load, has
\* reported both.
C24_MidiCase ==
    /\ health.tool = "midi"
    /\ health.status = "completed"
    /\ Len(health.files) = 2
    /\ ~health.files[1].loadable
    /\ health.files[2].loadable
    /\ Len(health.results) = 2
    /\ health.results[2].valid

\* C24 for validation (under Spec): a validation of an existing manifest
\* runs to its end and reports every referenced file that is absent and
\* every one that differs, wherever in the manifest its row stands.
C24_ValidationContinues ==
    [][Validate /\ manifest.exists =>
          /\ val_out'.status = "completed"
          /\ Range(report'.missing_files)
                = { ref[1] : ref \in References(manifest.rows) }
                      \ PathsOnDisk(audio_dir, midi_dir)
          /\ Range(report'.checksum_mismatches)
                = ExpectedMismatches(audio_dir, midi_dir, manifest.rows)]_vars

\* C24 for batch conversion (under SpecBatch): every CSV of the batch that
\* is not skipped for an existing output has its entry in the results, -1
\* or the number of notes written, whatever happened to the CSVs before it.
C24_ConversionContinues ==
    [][BatchStep =>
          \A p \in Candidates(cli'.mode) :
              ~(Target(p) \in DOMAIN midi_root /\ ~cli'.force) =>
                  \E e \in cli'.results :
                      /\ e.key = KeyOf(p)
                      /\ e.count >= 0 - 1
                      /\ e.count >= 0 <=> Target(p) \in cli'.written]_vars

\* An alternatives run has recorded -1 for its first CSV and has converted
\* two CSVs after it.
C24_ConversionCase ==
    /\ cli.mode = "alternatives"
    /\ cli.status = "completed"
    /\ [key |-> <<"S", "/", "a", ".", "c", "s", "v">>, count |-> 0 - 1] \in cli.results
    /\ \E e \in cli.results : e.key = <<"S", "/", "b", ".", "c", "s", "v">> /\ e.count >= 0
    /\ \E e \in cli.results : e.key = <<"T", "/", "a", ".", "c", "s", "v">> /\ e.count >= 0

-----------------------------------------------------------------------------
(* Claims about input/output errors (checked under SpecIO).                *)

\* C25 (for build and validation): an error raised while one file is read
\* or hashed does not leave the batch loop: a build runs to its end, and a
\* validation of an existing manifest runs to its end and writes its report.
C25_ErrorsStayInLoop ==
    [][/\ Build => build_out'.status = "completed"
       /\ Validate /\ manifest.exists =>
             val_out'.status = "completed" /\ report'.exists]_vars

-----------------------------------------------------------------------------
(* Claims about ties in rounding (checked under SpecConvert).              *)

\* The cell stands for n + 0.5 with an integer n in 0..126; and that n.
IsHalfway(c) == PitchOfCell(c) % 100 = 50 /\ PitchOfCell(c) \div 100 \in 0..126
Below(c) == PitchOfCell(c) \div 100

-----------------------------------------------------------------------------
(* Claims about the validation report's counts (checked under Spec).       *)

\* The number of rows that carry the id, and of the places of a list that
\* hold it.
RowsWithId(rows, id) == Cardinality({ i \in 1..Len(rows) : rows[i].id = id })
TimesListed(list, id) == Cardinality({ k \in 1..Len(list) : list[k] = id })

\* The ids of the rows.
IdsOf(rows) == { rows[i].id : i \in 1..Len(rows) }

\* A validation that runs to its end.
ValidateStep == Validate /\ val_out'.status = "completed"

\* C27, first half: an id is in duplicate_ids exactly when more than one
\* row carries it.
C27_ListedIffRepeated ==
    [][ValidateStep =>
          Range(report'.duplicate_ids)
              = { id \in IdsOf(manifest.rows) : RowsWithId(manifest.rows, id) > 1 }]_vars

\* C27: an id is in duplicate_ids exactly when more than one row carries
\* it, and it is there once, however many rows carry it.
C27_ListedOnce ==
    [][ValidateStep =>
          /\ Range(report'.duplicate_ids)
                = { id \in IdsOf(manifest.rows) : RowsWithId(manifest.rows, id) > 1 }
          /\ \A id \in IdsOf(manifest.rows) :
                TimesListed(report'.duplicate_ids, id) <= 1]_vars

\* A manifest with one id in three rows has been validated.
C27_ThreeRowsCase ==
    /\ val_out.status = "completed"
    /\ report.exists
    /\ manifest.exists
    /\ \E id \in IdsOf(manifest.rows) : RowsWithId(manifest.rows, id) = 3
    /\ Len(report.duplicate_ids) = 2

\* The song names of the rows, and those of them whose rows carry the flag
\* has_emotional_variations as the cell "True", or as another cell.
SongsOf(rows) == { rows[i].song_name : i \in 1..Len(rows) }
SongsFlagged(rows) ==
    { rows[i].song_name : i \in { k \in 1..Len(rows) : rows[k].has_emotional_variations = <<"T", "r", "u", "e">> } }
SongsUnflagged(rows) ==
    { rows[i].song_name : i \in { k \in 1..Len(rows) : rows[k].has_emotional_variations # <<"T", "r", "u", "e">> } }

\* C28: for a manifest the builder produced, the report's song counts
\* partition the songs: with + without = unique, no song name counts in
\* both groups, and songs_with_variations is the number of distinct song
\* names of the manifest that belong to the curated set.
C28_SongCountsPartition ==
    [][Validate /\ built =>
          /\ report'.exists
          /\ report'.unique_songs = Cardinality(SongsOf(manifest.rows))
          /\ report'.songs_with_variations + report'.songs_without_variations
                = report'.unique_songs
          /\ SongsFlagged(manifest.rows) \cap SongsUnflagged(manifest.rows) = {}
          /\ report'.songs_with_variations
                = Cardinality(SongsOf(manifest.rows) \cap SONGS_WITH_VARIATIONS)
          /\ report'.songs_without_variations
                = Cardinality(SongsOf(manifest.rows) \ SONGS_WITH_VARIATIONS)]_vars

\* A built manifest of three pairs, two of them of one curated song, has
\* been validated: one song with variations, one without.
C28_Witness ==
    /\ built
    /\ val_out.status = "completed"
    /\ report.exists
    /\ report.total_pairs = 3
    /\ Len(manifest.rows) = 3
    /\ report.unique_songs = 2
    /\ report.songs_with_variations = 1
    /\ report.songs_without_variations = 1

\* C29: the figures the builder prints agree with the validator's report
\* for the same manifest: "Total pairs" with total_pairs, "Unique songs"
\* with unique_songs, "Songs with variations" with songs_with_variations.
C29_SummaryAgreesWithReport ==
    [][Validate /\ built =>
          /\ report'.exists
          /\ build_out.summary.total_pairs = report'.total_pairs
          /\ build_out.summary.unique_songs = report'.unique_songs
          /\ build_out.summary.songs_with_variations = report'.songs_with_variations]_vars

\* C29 without the third figure.
C29_PairsAndSongsAgree ==
    [][Validate /\ built =>
          /\ report'.exists
          /\ build_out.summary.total_pairs = report'.total_pairs
          /\ build_out.summary.unique_songs = report'.unique_songs]_vars

\* The builder printed 2 songs with variations for a manifest in which the
\* validator has found 1.
C29_TwoRowsOneSong ==
    /\ built
    /\ val_out.status = "completed"
    /\ report.exists
    /\ build_out.summary.songs_with_variations = 2
    /\ report.songs_with_variations = 1

-----------------------------------------------------------------------------
(* Claims about the velocity option (checked under SpecBatch).             *)

\* Every note of every file the run has written has the velocity v.
WrittenWithVelocity(v) ==
    \A t \in cli.written :
        \A i \in 1..Len(midi_root[t].notes) : midi_root[t].notes[i].velocity = v

\* C30: in single-file, directory and alternatives conversion started with
\* --velocity V, every note of every output file has velocity V (100 when
\* the option is omitted).
C30_VelocityApplied ==
    cli.status = "completed" => WrittenWithVelocity(cli.velocity)

\* C30 for single-file conversion alone.
C30_SingleVelocityApplied ==
    (cli.status = "completed" /\ cli.mode = "single") => WrittenWithVelocity(cli.velocity)

\* What the batch modes do: every note has velocity 100.
C30_BatchVelocityDefault ==
    (cli.status = "completed" /\ cli.mode \in {"directory", "alternatives"})
        => WrittenWithVelocity(100)

\* A single-file run with --velocity 64 has written notes.
C30_SingleCase ==
    /\ cli.status = "completed"
    /\ cli.mode = "single"
    /\ cli.velocity = 64
    /\ \E t \in cli.written : Len(midi_root[t].notes) >= 1

\* A directory run with --velocity 64 has written notes.
C30_DirectoryCase ==
    /\ cli.status = "completed"
    /\ cli.mode = "directory"
    /\ cli.velocity = 64
    /\ \E t \in cli.written : Len(midi_root[t].notes) >= 1

====
